---- MODULE Spec2Model ----
(***************************************************************************)
(* The schedule subsystem of mailmerge (src/mailmerge_cli/cli.py): the     *)
(* cron matcher, the next-run calculator and the due-time state machine    *)
(* that is persisted in a job's state file.                               *)
(*                                                                         *)
(* Time is a count of clock ticks since an epoch that falls on a Monday,   *)
(* midnight, day 1 of month 1.  The calendar is scaled down: a minute has  *)
(* TicksPerMinute ticks, an hour MinutesPerHour minutes, a day HoursPerDay *)
(* hours, a year MonthsPerYear months of DaysPerMonth days, the second     *)
(* month being one day shorter.  The week keeps its seven days.  The scan  *)
(* window of next_run_time, 366 days where a year has 365, is one day more *)
(* than the scaled year, so that here as there a schedule that exists but  *)
(* is rarer than yearly can fall outside the window.                       *)
(***************************************************************************)
EXTENDS Integers, Sequences, FiniteSets, TLC

VARIABLES
    cron_spec,    \* the job's cron spec: a sequence of field strings
    clock,        \* the wall clock, in ticks
    state_file,   \* the content of the job's state file
    returned,     \* what the call made in the last step returned or raised
    probe,        \* the last direct calls of next_run_time and their results
    args,         \* the schedule arguments of the command line, and the local zone
    outcome,      \* the last call into the matcher, the normalizer, a converter or main
    registered,   \* what the schedulers of the host hold
    state_dir,    \* the directory of state files
    platform,     \* the host: sys.platform, and whether systemctl is on the path
    calls         \* the number of runs of main so far

vars ==
    <<cron_spec, clock, state_file, returned, probe, args, outcome, registered, state_dir,
      platform, calls>>

(***************************************************************************)
(* Bounds of the model.                                                    *)
(***************************************************************************)
TicksPerMinute == 2
MinutesPerHour == 2
HoursPerDay == 2
DaysPerMonth == 3
MonthsPerYear == 3
MaxClock == 8        \* the wall clock stops here
MaxStart == 20       \* latest start time handed to next_run_time directly
MaxGap == 3          \* largest distance between two start times that are compared
MaxInstantDays == 14 \* instants handed to cron_matches directly lie in the first days
MaxOffset == 2       \* largest UTC offset of a zone, in minutes, east or west

(***************************************************************************)
(* Program constants.                                                      *)
(***************************************************************************)
DaysPerWeek == 7

(***************************************************************************)
(* datetime: the calendar fields of an instant, and instants from fields.  *)
(***************************************************************************)
TicksPerHour == TicksPerMinute * MinutesPerHour
TicksPerDay == TicksPerHour * HoursPerDay

DaysInMonth(m) == IF m = 2 THEN DaysPerMonth - 1 ELSE DaysPerMonth

RECURSIVE DaysBeforeMonth(_)
DaysBeforeMonth(m) == IF m <= 1 THEN 0 ELSE DaysBeforeMonth(m - 1) + DaysInMonth(m - 1)

DaysPerYear == DaysBeforeMonth(MonthsPerYear + 1)

\* Mutant of ScanLimitDays: the scan gives up after a month.
ScanLimitDays_month == DaysPerMonth

\* timedelta(days=366): one day more than the year
ScanLimitDays == DaysPerYear + 1

DayIndex(t) == t \div TicksPerDay
DayOfYear(t) == DayIndex(t) % DaysPerYear

\* the month, and the day of the month, of each day of the year
MonthOfDay ==
    [d \in 0..(DaysPerYear - 1) |->
        CHOOSE m \in 1..MonthsPerYear : DaysBeforeMonth(m) <= d /\ d < DaysBeforeMonth(m + 1)]
DayOfMonth == [d \in 0..(DaysPerYear - 1) |-> d - DaysBeforeMonth(MonthOfDay[d]) + 1]

dt_second(t) == t % TicksPerMinute
dt_minute(t) == (t \div TicksPerMinute) % MinutesPerHour
dt_hour(t) == (t \div TicksPerHour) % HoursPerDay
dt_year(t) == DayIndex(t) \div DaysPerYear
dt_month(t) == MonthOfDay[DayOfYear(t)]
dt_day(t) == DayOfMonth[DayOfYear(t)]
\* datetime.weekday(): Monday is 0, Sunday is 6
dt_weekday(t) == DayIndex(t) % DaysPerWeek

\* datetime.replace(second=0, microsecond=0)
TruncateToMinute(t) == t - (t % TicksPerMinute)

(***************************************************************************)
(* Outcomes of a call: a returned value or a raised exception.             *)
(***************************************************************************)
Return(v) == [raised |-> "", value |-> v]
Raise(e) == [raised |-> e, value |-> 0]

\* int | None
None == << >>
Some(n) == <<n>>

(***************************************************************************)
(* Cron specs: a spec is the sequence of its whitespace-separated fields.  *)
(***************************************************************************)
FieldValues == 0 .. (DaysPerWeek + DaysPerMonth + MonthsPerYear + MinutesPerHour + HoursPerDay)

\* int(value) accepts the decimal literals
Literal == [n \in FieldValues |-> ToString(n)]
Literals == {Literal[n] : n \in FieldValues}
IsIntLiteral(value) == value \in Literals
IntOf(value) == CHOOSE n \in FieldValues : Literal[n] = value

parse_cron_value(value) ==
    IF value = "*" THEN Return(None)
    ELSE IF IsIntLiteral(value) THEN Return(Some(IntOf(value)))
    ELSE Raise("ValueError")

parse_cron_spec(spec) ==
    IF Len(spec) # 5 THEN Raise("ValueError")
    ELSE IF \E i \in 1..5 : parse_cron_value(spec[i]).raised # "" THEN Raise("ValueError")
    ELSE Return(<<parse_cron_value(spec[1]).value, parse_cron_value(spec[2]).value,
                  parse_cron_value(spec[3]).value, parse_cron_value(spec[4]).value,
                  parse_cron_value(spec[5]).value>>)

\* Mutant of cron_matches: the weekday of the instant is taken as datetime
\* numbers it (Monday 0), not turned to cron's numbering.
cron_matches_monday0(dt_value, minute, hour, day, month, weekday) ==
    IF minute # None /\ dt_minute(dt_value) # minute[1] THEN FALSE
    ELSE IF hour # None /\ dt_hour(dt_value) # hour[1] THEN FALSE
    ELSE IF month # None /\ dt_month(dt_value) # month[1] THEN FALSE
    ELSE IF day # None /\ dt_day(dt_value) # day[1] THEN FALSE
    ELSE IF weekday # None
         THEN LET cron_weekday == dt_weekday(dt_value)
                  target == weekday[1] % DaysPerWeek
              IN cron_weekday = target
    ELSE TRUE

cron_matches(dt_value, minute, hour, day, month, weekday) ==
    IF minute # None /\ dt_minute(dt_value) # minute[1] THEN FALSE
    ELSE IF hour # None /\ dt_hour(dt_value) # hour[1] THEN FALSE
    ELSE IF month # None /\ dt_month(dt_value) # month[1] THEN FALSE
    ELSE IF day # None /\ dt_day(dt_value) # day[1] THEN FALSE
    ELSE IF weekday # None
         THEN LET cron_weekday == (dt_weekday(dt_value) + 1) % DaysPerWeek
                  target == weekday[1] % DaysPerWeek
              IN cron_weekday = target
    ELSE TRUE

\* the candidates of the scan, in scan order: candidate, candidate + 1 minute, ... <= limit
ScanSteps == 0 .. (ScanLimitDays * HoursPerDay * MinutesPerHour)

\* fields f matched at the k-th candidate of the scan that starts at candidate
Hit(f, candidate, k) ==
    cron_matches(candidate + k * TicksPerMinute, f[1], f[2], f[3], f[4], f[5])

\* Mutant of ScanFrom: when the window holds no match, its last candidate is
\* returned where the code raises.
ScanFrom_limit(f, candidate) ==
    IF \E k \in ScanSteps : Hit(f, candidate, k)
    THEN LET first == CHOOSE k \in ScanSteps :
                          Hit(f, candidate, k) /\ \A j \in 0..(k - 1) : ~Hit(f, candidate, j)
         IN Return(candidate + first * TicksPerMinute)
    ELSE Return(candidate + ScanLimitDays * TicksPerDay)

\* Mutant of ScanFrom: the candidate is stepped once more before it is returned.
ScanFrom_after(f, candidate) ==
    IF \E k \in ScanSteps : Hit(f, candidate, k)
    THEN LET first == CHOOSE k \in ScanSteps :
                          Hit(f, candidate, k) /\ \A j \in 0..(k - 1) : ~Hit(f, candidate, j)
         IN Return(candidate + (first + 1) * TicksPerMinute)
    ELSE Raise("RuntimeError")

\* Mutant of ScanFrom: the candidate is stepped by two minutes.
ScanFrom_step2(f, candidate) ==
    LET Even == {k \in ScanSteps : k % 2 = 0}
    IN IF \E k \in Even : Hit(f, candidate, k)
       THEN LET first == CHOOSE k \in Even :
                             /\ Hit(f, candidate, k)
                             /\ \A j \in {i \in Even : i < k} : ~Hit(f, candidate, j)
            IN Return(candidate + first * TicksPerMinute)
       ELSE Raise("RuntimeError")

\* the while loop of next_run_time: the first candidate that matches, if any
ScanFrom(f, candidate) ==
    IF \E k \in ScanSteps : Hit(f, candidate, k)
    THEN LET first == CHOOSE k \in ScanSteps :
                          Hit(f, candidate, k) /\ \A j \in 0..(k - 1) : ~Hit(f, candidate, j)
         IN Return(candidate + first * TicksPerMinute)
    ELSE Raise("RuntimeError")

\* Mutant of next_run_time: the scan starts at the minute of start itself.
next_run_time_from_start(spec, start) ==
    LET parsed == parse_cron_spec(spec)
    IN IF parsed.raised # "" THEN parsed
       ELSE ScanFrom(parsed.value, TruncateToMinute(start))

\* Mutant of next_run_time: the first candidate keeps the seconds of start.
next_run_time_untruncated(spec, start) ==
    LET parsed == parse_cron_spec(spec)
    IN IF parsed.raised # "" THEN parsed
       ELSE ScanFrom(parsed.value, start + TicksPerMinute)

next_run_time(spec, start) ==
    LET parsed == parse_cron_spec(spec)
    IN IF parsed.raised # "" THEN parsed
       ELSE ScanFrom(parsed.value, TruncateToMinute(start + TicksPerMinute))

(***************************************************************************)
(* Strings that stand for timestamps, and the JSON values of a state file. *)
(* A string is an ISO timestamp without offset ("iso"), one with a UTC     *)
(* offset ("iso+tz"), the empty string ("") or any other text ("junk").    *)
(***************************************************************************)
Str(text, fields) == [text |-> text, fields |-> fields]

\* datetime.isoformat(): the calendar fields, most significant first
isoformat(t) ==
    Str("iso", <<dt_year(t), dt_month(t), dt_day(t), dt_hour(t), dt_minute(t), dt_second(t)>>)

\* the same instant written with an explicit offset
isoformat_aware(t) == Str("iso+tz", isoformat(t).fields)

ValidFields(f) ==
    /\ Len(f) = 6
    /\ f[1] >= 0
    /\ f[2] \in 1..MonthsPerYear
    /\ f[3] \in 1..DaysInMonth(f[2])
    /\ f[4] \in 0..(HoursPerDay - 1)
    /\ f[5] \in 0..(MinutesPerHour - 1)
    /\ f[6] \in 0..(TicksPerMinute - 1)

TicksOfFields(f) ==
    (((f[1] * DaysPerYear + DaysBeforeMonth(f[2]) + (f[3] - 1)) * HoursPerDay + f[4])
        * MinutesPerHour + f[5]) * TicksPerMinute + f[6]

\* datetime.fromisoformat(): the instant, and whether it carries an offset
fromisoformat(s) ==
    IF s.text \in {"iso", "iso+tz"} /\ ValidFields(s.fields)
    THEN [raised |-> "", value |-> TicksOfFields(s.fields), aware |-> s.text = "iso+tz"]
    ELSE [raised |-> "ValueError", value |-> 0, aware |-> FALSE]

\* JSON values under a key of the state file ("missing": the key is absent)
JMissing == [kind |-> "missing", str |-> Str("", << >>)]
JNull == [kind |-> "null", str |-> Str("", << >>)]
JNumber == [kind |-> "number", str |-> Str("", << >>)]   \* a number other than 0
JString(s) == [kind |-> "string", str |-> s]

\* Python truth value of data.get(key)
Truthy(v) == v.kind = "number" \/ (v.kind = "string" /\ v.str.text # "")

\* A state file: absent, or text that is no JSON ("invalid"), a JSON array, or a
\* JSON object with what it holds under next_due and last_run.
NoFile == [exists |-> FALSE, json |-> "", next_due |-> JMissing, last_run |-> JMissing]
FileOf(json, next_due, last_run) ==
    [exists |-> TRUE, json |-> json, next_due |-> next_due, last_run |-> last_run]

\* the dict `data` after lines 632-639, or a JSON array
LoadedData(file) ==
    IF file.exists /\ file.json # "invalid" THEN file
    ELSE FileOf("object", JMissing, JMissing)

(***************************************************************************)
(* The due-time state machine.  An outcome is what a call raised or        *)
(* returned, together with the state file it leaves.                       *)
(***************************************************************************)
Outcome(raised, due, next_due, aware, file) ==
    [raised |-> raised, due |-> due, next_due |-> next_due, aware |-> aware, file |-> file]

\* Mutant of TrustsStored: overwrite is not looked at.
TrustsStored_any(file, overwrite) ==
    /\ file.exists
    /\ file.json = "object"
    /\ Truthy(file.next_due)
    /\ file.next_due.kind = "string"
    /\ fromisoformat(file.next_due.str).raised = ""

\* lines 608-616: the stored next_due is read and parses
TrustsStored(file, overwrite) ==
    /\ file.exists /\ ~overwrite
    /\ file.json = "object"
    /\ Truthy(file.next_due)
    /\ file.next_due.kind = "string"
    /\ fromisoformat(file.next_due.str).raised = ""

initialize_schedule_state(file, spec, overwrite, wall) ==
    LET parsed == fromisoformat(file.next_due.str)
        trusted == TrustsStored(file, overwrite)
        now == TruncateToMinute(wall)
        next_due == next_run_time(spec, now - TicksPerMinute)
    IN IF trusted THEN Outcome("", FALSE, parsed.value, parsed.aware, file)
       ELSE IF next_due.raised # "" THEN Outcome(next_due.raised, FALSE, 0, FALSE, file)
       ELSE Outcome("", FALSE, next_due.value, FALSE,
                    FileOf("object", JString(isoformat(next_due.value)), JNull))

\* Mutant of IsDue: the comparison is strict.
IsDue_strict(now, next_due) == now > next_due

\* due = now >= next_due
IsDue(now, next_due) == now >= next_due

\* Mutant of update_schedule_state: a due call stores the next_due it found.
update_schedule_state_stays(spec, file, wall) ==
    LET now == TruncateToMinute(wall)
        data == LoadedData(file)
        next_due_str == data.next_due
        parsed == fromisoformat(next_due_str.str)
        recomputed == next_run_time(spec, now - TicksPerMinute)
        \* lines 641-648
        next_due ==
            IF Truthy(next_due_str)
            THEN IF next_due_str.kind # "string"
                 THEN [raised |-> "TypeError", value |-> 0, aware |-> FALSE]
                 ELSE IF parsed.raised = "" THEN parsed
                 ELSE [raised |-> recomputed.raised, value |-> recomputed.value, aware |-> FALSE]
            ELSE [raised |-> recomputed.raised, value |-> recomputed.value, aware |-> FALSE]
        next_after == next_run_time(spec, next_due.value)
    IN IF data.json = "array" THEN Outcome("AttributeError", FALSE, 0, FALSE, file)
       ELSE IF next_due.raised # "" THEN Outcome(next_due.raised, FALSE, 0, FALSE, file)
       ELSE IF next_due.aware THEN Outcome("TypeError", FALSE, 0, FALSE, file)
       ELSE IF IsDue(now, next_due.value)
            THEN IF next_after.raised # "" THEN Outcome(next_after.raised, FALSE, 0, FALSE, file)
                 ELSE Outcome("", TRUE, next_due.value, FALSE,
                              FileOf("object", JString(isoformat(next_due.value)),
                                     JString(isoformat(now))))
       ELSE Outcome("", FALSE, next_due.value, FALSE,
                    FileOf("object",
                           \* data.setdefault("next_due", ...)
                           IF data.next_due.kind = "missing"
                           THEN JString(isoformat(next_due.value)) ELSE data.next_due,
                           IF data.last_run.kind = "missing" THEN JNull ELSE data.last_run))

update_schedule_state(spec, file, wall) ==
    LET now == TruncateToMinute(wall)
        data == LoadedData(file)
        next_due_str == data.next_due
        parsed == fromisoformat(next_due_str.str)
        recomputed == next_run_time(spec, now - TicksPerMinute)
        \* lines 641-648
        next_due ==
            IF Truthy(next_due_str)
            THEN IF next_due_str.kind # "string"
                 THEN [raised |-> "TypeError", value |-> 0, aware |-> FALSE]
                 ELSE IF parsed.raised = "" THEN parsed
                 ELSE [raised |-> recomputed.raised, value |-> recomputed.value, aware |-> FALSE]
            ELSE [raised |-> recomputed.raised, value |-> recomputed.value, aware |-> FALSE]
        next_after == next_run_time(spec, next_due.value)
    IN IF data.json = "array" THEN Outcome("AttributeError", FALSE, 0, FALSE, file)
       ELSE IF next_due.raised # "" THEN Outcome(next_due.raised, FALSE, 0, FALSE, file)
       ELSE IF next_due.aware THEN Outcome("TypeError", FALSE, 0, FALSE, file)
       ELSE IF IsDue(now, next_due.value)
            THEN IF next_after.raised # "" THEN Outcome(next_after.raised, FALSE, 0, FALSE, file)
                 ELSE Outcome("", TRUE, next_after.value, FALSE,
                              FileOf("object", JString(isoformat(next_after.value)),
                                     JString(isoformat(now))))
       ELSE Outcome("", FALSE, next_due.value, FALSE,
                    FileOf("object",
                           \* data.setdefault("next_due", ...)
                           IF data.next_due.kind = "missing"
                           THEN JString(isoformat(next_due.value)) ELSE data.next_due,
                           IF data.last_run.kind = "missing" THEN JNull ELSE data.last_run))

(***************************************************************************)
(* Schedule expressions.  A text is the sequence of its tokens: a word (a  *)
(* run of characters that are no white space), a run of blanks, a line     *)
(* break, or an ISO 8601 time of day or date-time.  A token carries the    *)
(* string it is to a reader of fields, and an ISO token the calendar       *)
(* fields it spells and its UTC offset, if it spells one.  A zone is its   *)
(* UTC offset in minutes.                                                  *)
(***************************************************************************)
Word(s) == [kind |-> "word", str |-> s, fields |-> << >>, offset |-> None]
Blank == [kind |-> "blank", str |-> " ", fields |-> << >>, offset |-> None]
LineBreak == [kind |-> "linebreak", str |-> "\n", fields |-> << >>, offset |-> None]
\* fields <<hour, minute, second>>
IsoTime(fields, offset) == [kind |-> "time", str |-> "iso", fields |-> fields, offset |-> offset]
\* fields <<year, month, day, hour, minute, second>>
IsoDateTime(fields, offset) ==
    [kind |-> "datetime", str |-> "iso", fields |-> fields, offset |-> offset]

IsWhite(token) == token.kind \in {"blank", "linebreak"}

\* str.strip()
strip(text) ==
    IF \A i \in 1..Len(text) : IsWhite(text[i]) THEN << >>
    ELSE LET first == CHOOSE i \in 1..Len(text) :
                          ~IsWhite(text[i]) /\ \A j \in 1..(i - 1) : IsWhite(text[j])
             last == CHOOSE i \in 1..Len(text) :
                         ~IsWhite(text[i]) /\ \A j \in (i + 1)..Len(text) : IsWhite(text[j])
         IN SubSeq(text, first, last)

\* str.split(): the fields of a text, as strings
split(text) ==
    LET words == SelectSeq(text, LAMBDA token : ~IsWhite(token))
    IN [i \in 1..Len(words) |-> words[i].str]

\* f"{a} {b} {c} {d} {e}": the fields set one blank apart
CronText(fields) ==
    [i \in 1..(2 * Len(fields) - 1) |->
        IF i % 2 = 1 THEN Word(fields[(i + 1) \div 2]) ELSE Blank]

\* the words of the model that begin with "@"
AtWords ==
    {"@yearly", "@annually", "@monthly", "@weekly", "@daily", "@midnight", "@hourly",
     "@reboot"}

\* cleaned.startswith("@")
StartsWithAt(text) == text[1].kind = "word" /\ text[1].str \in AtWords

\* datetime.astimezone(): the wall clock of zone `to` at the instant that
\* reads t on the wall clock of zone `from`
astimezone(t, from, to) == t + (to - from) * TicksPerMinute

\* time.fromisoformat() accepts the fields
ValidTimeFields(f) ==
    /\ Len(f) = 3
    /\ f[1] \in 0..(HoursPerDay - 1)
    /\ f[2] \in 0..(MinutesPerHour - 1)
    /\ f[3] \in 0..(TicksPerMinute - 1)

\* Mutant of SourceZone: the timezone hint is preferred to the value's own offset.
SourceZone_hint_first(token, tz_hint, local_zone) ==
    IF tz_hint # None THEN tz_hint[1]
    ELSE IF token.offset # None THEN token.offset[1]
    ELSE local_zone

\* dt_value.tzinfo or tz_hint or local_zone
SourceZone(token, tz_hint, local_zone) ==
    IF token.offset # None THEN token.offset[1]
    ELSE IF tz_hint # None THEN tz_hint[1]
    ELSE local_zone

\* Mutant of convert_iso_to_cron: the hour is written before the minute.
convert_iso_to_cron_hour_first(value, tz_hint, local_zone, wall) ==
    LET candidate == strip(value)
        token == candidate[1]
        source_zone == SourceZone(token, tz_hint, local_zone)
        \* lines 826-830
        dt_with_tz == TicksOfFields(token.fields)
        dt_local == astimezone(dt_with_tz, source_zone, local_zone)
        \* lines 843-846
        reference_date == DayIndex(astimezone(wall, local_zone, source_zone))
        combined == reference_date * TicksPerDay
                        + (token.fields[1] * MinutesPerHour + token.fields[2]) * TicksPerMinute
                        + token.fields[3]
        local_time == astimezone(combined, source_zone, local_zone)
    IN IF Len(candidate) # 1 THEN None
       ELSE IF token.kind = "datetime" /\ ValidFields(token.fields)
            THEN Some(CronText(<<ToString(dt_hour(dt_local)), ToString(dt_minute(dt_local)),
                                 ToString(dt_day(dt_local)), ToString(dt_month(dt_local)), "*">>))
       ELSE IF token.kind = "time" /\ ValidTimeFields(token.fields)
            THEN Some(CronText(<<ToString(dt_hour(local_time)), ToString(dt_minute(local_time)),
                                 "*", "*", "*">>))
       ELSE None

\* an ISO value holds no white space; `wall` is the local wall clock, of which
\* the time-of-day branch takes today's date in the source zone
convert_iso_to_cron(value, tz_hint, local_zone, wall) ==
    LET candidate == strip(value)
        token == candidate[1]
        source_zone == SourceZone(token, tz_hint, local_zone)
        \* lines 826-830
        dt_with_tz == TicksOfFields(token.fields)
        dt_local == astimezone(dt_with_tz, source_zone, local_zone)
        \* lines 843-846
        reference_date == DayIndex(astimezone(wall, local_zone, source_zone))
        combined == reference_date * TicksPerDay
                        + (token.fields[1] * MinutesPerHour + token.fields[2]) * TicksPerMinute
                        + token.fields[3]
        local_time == astimezone(combined, source_zone, local_zone)
    IN IF Len(candidate) # 1 THEN None
       ELSE IF token.kind = "datetime" /\ ValidFields(token.fields)
            THEN Some(CronText(<<ToString(dt_minute(dt_local)), ToString(dt_hour(dt_local)),
                                 ToString(dt_day(dt_local)), ToString(dt_month(dt_local)), "*">>))
       ELSE IF token.kind = "time" /\ ValidTimeFields(token.fields)
            THEN Some(CronText(<<ToString(dt_minute(local_time)), ToString(dt_hour(local_time)),
                                 "*", "*", "*">>))
       ELSE None

\* Mutant of normalize_schedule: a text of five or six fields is returned with
\* its fields set one blank apart, but the last field is lost.
normalize_schedule_drops_field(schedule, tz_hint, local_zone, wall) ==
    LET cleaned == strip(schedule)
        fields == split(cleaned)
        cron_from_iso == convert_iso_to_cron(cleaned, tz_hint, local_zone, wall)
    IN IF cleaned = << >> \/ \E i \in 1..Len(cleaned) : cleaned[i].kind = "linebreak"
       THEN Raise("ValueError")
       ELSE IF StartsWithAt(cleaned) THEN Return(<<cleaned, cleaned>>)
       ELSE IF Len(fields) \in {5, 6}
            THEN Return(<<CronText(SubSeq(fields, 1, Len(fields) - 1)), cleaned>>)
       ELSE IF cron_from_iso = None THEN Raise("ValueError")
       ELSE Return(<<cron_from_iso[1], cleaned>>)

\* returns <<cron spec, display text>>
normalize_schedule(schedule, tz_hint, local_zone, wall) ==
    LET cleaned == strip(schedule)
        fields == split(cleaned)
        cron_from_iso == convert_iso_to_cron(cleaned, tz_hint, local_zone, wall)
    IN IF cleaned = << >> \/ \E i \in 1..Len(cleaned) : cleaned[i].kind = "linebreak"
       THEN Raise("ValueError")
       ELSE IF StartsWithAt(cleaned) THEN Return(<<cleaned, cleaned>>)
       ELSE IF Len(fields) \in {5, 6} THEN Return(<<cleaned, cleaned>>)
       ELSE IF cron_from_iso = None THEN Raise("ValueError")
       ELSE Return(<<cron_from_iso[1], cleaned>>)

\* Mutant of macro_map: @weekly runs on day 1 of the month.
macro_map_weekly_day1 ==
    [macro \in AtWords \ {"@reboot"} |->
        CASE macro \in {"@yearly", "@annually"} -> CronText(<<"0", "0", "1", "1", "*">>)
          [] macro = "@monthly" -> CronText(<<"0", "0", "1", "*", "*">>)
          [] macro = "@weekly" -> CronText(<<"0", "0", "1", "*", "*">>)
          [] macro \in {"@daily", "@midnight"} -> CronText(<<"0", "0", "*", "*", "*">>)
          [] macro = "@hourly" -> CronText(<<"0", "*", "*", "*", "*">>)]

macro_map ==
    [macro \in AtWords \ {"@reboot"} |->
        CASE macro \in {"@yearly", "@annually"} -> CronText(<<"0", "0", "1", "1", "*">>)
          [] macro = "@monthly" -> CronText(<<"0", "0", "1", "*", "*">>)
          [] macro = "@weekly" -> CronText(<<"0", "0", "*", "*", "0">>)
          [] macro \in {"@daily", "@midnight"} -> CronText(<<"0", "0", "*", "*", "*">>)
          [] macro = "@hourly" -> CronText(<<"0", "*", "*", "*", "*">>)]

\* macro_map.get(cron_spec, cron_spec): the key is the whole text
ExpandMacro(spec) ==
    IF Len(spec) = 1 /\ spec[1].kind = "word" /\ spec[1].str \in DOMAIN macro_map
    THEN macro_map[spec[1].str]
    ELSE spec

\* returns <<cron spec, display schedule>>; the timezone hint comes resolved
prepare_schedule(schedule, tz_hint, local_zone, wall) ==
    IF schedule = << >> THEN Raise("ValueError")
    ELSE LET schedule_text == strip(schedule)
             normalized == normalize_schedule(schedule_text, tz_hint, local_zone, wall)
         IN IF normalized.raised # "" THEN normalized
            ELSE Return(<<ExpandMacro(normalized.value[1]), normalized.value[2]>>)

(***************************************************************************)
(* The converters of the calendar backends.                                *)
(***************************************************************************)
\* str.isdigit(), of the words of the model
IsDigits(field) == field \in Literals

_parse_numeric_field(field, allow_wildcard) ==
    IF field = "*"
    THEN IF allow_wildcard THEN Return(None) ELSE Raise("ValueError")
    ELSE IF ~IsDigits(field) THEN Raise("ValueError")
    ELSE Return(Some(IntOf(field)))

\* Mutant of NumericFields: a field that cannot be read, and a wildcard minute
\* or hour, is read as 0.
NumericFields_lenient(spec) ==
    LET fields == split(spec)
        parsed == [i \in 1..5 |-> _parse_numeric_field(fields[i], TRUE)]
    IN IF Len(fields) # 5 THEN Raise("ValueError")
       ELSE Return([i \in 1..5 |->
                IF parsed[i].raised # "" \/ (i <= 2 /\ parsed[i].value = None) THEN Some(0)
                ELSE parsed[i].value])

\* the five fields of a spec as the converters read them (lines 735-740, 758-763)
NumericFields(spec) ==
    LET fields == split(spec)
        parsed == [i \in 1..5 |-> _parse_numeric_field(fields[i], i > 2)]
    IN IF Len(fields) # 5 THEN Raise("ValueError")
       ELSE IF \E i \in 1..5 : parsed[i].raised # "" THEN Raise("ValueError")
       ELSE Return([i \in 1..5 |-> parsed[i].value])

\* Mutant of DayAndWeekday: the two are never taken as combined.
DayAndWeekday_never(v) == FALSE

\* lines 742, 765: day_value is not None and weekday_value is not None
DayAndWeekday(v) == v[3] # None /\ v[5] # None

\* Mutant of cron_to_launchd_interval: a wildcard weekday is written as 0.
cron_to_launchd_interval_weekday0(spec) ==
    LET numeric == NumericFields(spec)
        v == numeric.value
        keys == {"Minute", "Hour", "Weekday"}
                    \cup (IF v[3] # None THEN {"Day"} ELSE {})
                    \cup (IF v[4] # None THEN {"Month"} ELSE {})
    IN IF numeric.raised # "" THEN numeric
       ELSE IF DayAndWeekday(v) THEN Raise("ValueError")
       ELSE Return([key \in keys |->
                CASE key = "Minute" -> v[1][1]
                  [] key = "Hour" -> v[2][1]
                  [] key = "Day" -> v[3][1]
                  [] key = "Month" -> v[4][1]
                  [] key = "Weekday" -> IF v[5] # None THEN v[5][1] ELSE 0])

\* the dict returned is a function of its keys
cron_to_launchd_interval(spec) ==
    LET numeric == NumericFields(spec)
        v == numeric.value
        keys == {"Minute", "Hour"}
                    \cup (IF v[3] # None THEN {"Day"} ELSE {})
                    \cup (IF v[4] # None THEN {"Month"} ELSE {})
                    \cup (IF v[5] # None THEN {"Weekday"} ELSE {})
    IN IF numeric.raised # "" THEN numeric
       ELSE IF DayAndWeekday(v) THEN Raise("ValueError")
       ELSE Return([key \in keys |->
                CASE key = "Minute" -> v[1][1]
                  [] key = "Hour" -> v[2][1]
                  [] key = "Day" -> v[3][1]
                  [] key = "Month" -> v[4][1]
                  [] key = "Weekday" -> v[5][1]])

\* f"{value:02d}", or "*" for None
pad(value) ==
    IF value = None THEN "*"
    ELSE IF value[1] < 10 THEN "0" \o ToString(value[1])
    ELSE ToString(value[1])

\* Mutant of weekday_map: the names are counted from Sunday.
weekday_map_from_sunday == <<"Sun", "Mon", "Tue", "Wed", "Thu", "Fri", "Sat">>

\* the name of weekday n is weekday_map[n], and that of weekday 0 is
\* weekday_map[DaysPerWeek]
weekday_map == <<"Mon", "Tue", "Wed", "Thu", "Fri", "Sat", "Sun">>

cron_to_systemd_calendar(spec) ==
    LET numeric == NumericFields(spec)
        v == numeric.value
        time_part == pad(v[2]) \o ":" \o pad(v[1]) \o ":00"
    IN IF numeric.raised # "" THEN numeric
       ELSE IF DayAndWeekday(v) THEN Raise("ValueError")
       ELSE IF v[5] # None
            THEN IF v[5][1] \notin 0..DaysPerWeek THEN Raise("ValueError")
                 ELSE Return(weekday_map[IF v[5][1] = 0 THEN DaysPerWeek ELSE v[5][1]]
                                 \o " *-" \o pad(v[4]) \o "-* " \o time_part)
       ELSE Return("*-" \o pad(v[4]) \o "-" \o pad(v[3]) \o " " \o time_part)

(***************************************************************************)
(* Backends.  A host is sys.platform with whether systemctl is on the      *)
(* path; a backend choice is the value of --schedule-backend ("" when the  *)
(* option is absent).                                                      *)
(***************************************************************************)
Backends == {"cron", "launchd", "systemd"}

Host(sys_platform, systemctl) == [sys_platform |-> sys_platform, systemctl |-> systemctl]

require_backend_supported(backend, host) ==
    IF backend = "launchd" /\ host.sys_platform # "darwin" THEN Raise("RuntimeError")
    ELSE IF backend = "systemd" /\ host.sys_platform # "linux" THEN Raise("RuntimeError")
    ELSE Return(None)

\* Mutant of detect_default_backend: systemctl is not looked for.
detect_default_backend_any_linux(host) ==
    IF host.sys_platform = "darwin" THEN "launchd"
    ELSE IF host.sys_platform = "linux" THEN "systemd"
    ELSE "cron"

detect_default_backend(host) ==
    IF host.sys_platform = "darwin" THEN "launchd"
    ELSE IF host.sys_platform = "linux" /\ host.systemctl THEN "systemd"
    ELSE "cron"

\* Mutant of determine_backend: a backend named explicitly is not checked.
determine_backend_unchecked(choice, host) ==
    IF choice \in {"", "auto"}
    THEN IF require_backend_supported(detect_default_backend(host), host).raised # ""
         THEN Raise("RuntimeError")
         ELSE Return(detect_default_backend(host))
    ELSE Return(choice)

determine_backend(choice, host) ==
    LET backend == IF choice \in {"", "auto"} THEN detect_default_backend(host) ELSE choice
    IN IF require_backend_supported(backend, host).raised # "" THEN Raise("RuntimeError")
       ELSE Return(backend)

(***************************************************************************)
(* Files and directories.  A directory is a function of the names of the   *)
(* files in it.  A label is the sequence of its characters.  The state     *)
(* file of a job is named by the label and the fingerprint, and the short  *)
(* hash of the fingerprint source is taken as collision-free: it is the    *)
(* source itself.                                                          *)
(***************************************************************************)
EmptyDir == [name \in {} |-> None]

\* open(path, "w").write(content)
WriteFile(dir, name, content) ==
    [n \in DOMAIN dir \cup {name} |-> IF n = name THEN content ELSE dir[n]]

\* path.unlink() of each, where FileNotFoundError is passed over
Unlink(dir, names) == [n \in DOMAIN dir \ names |-> dir[n]]

\* what a reader of the state path finds
StateAt(dir, state_path) == IF state_path \in DOMAIN dir THEN dir[state_path] ELSE NoFile

\* An argument is the sequence of its lines: one line, unless the argument
\* holds line breaks.  "\n".join(arguments), as the sequence of its lines.
RECURSIVE JoinLines(_)
JoinLines(arguments) ==
    IF arguments = << >> THEN << >>
    ELSE Head(arguments) \o JoinLines(Tail(arguments))

\* Mutant of Fingerprint: the command is left out.
Fingerprint_spec_only(base_command, spec) == << << >>, spec>>

\* hashlib.sha1("\n".join(base_command + [cron_spec])): the cron spec is one
\* line, the last
Fingerprint(base_command, spec) == <<JoinLines(base_command), spec>>

build_state_path(label_seed, fingerprint) == <<label_seed, fingerprint>>

\* the argument vector: args.command stands for the arguments of the mail
\* merge itself
build_program_arguments(a, schedule_spec, state_path) ==
    [command |-> a.command, schedule_spec |-> schedule_spec, state_path |-> Some(state_path)]

\* the value after "--schedule-state", if there is one
extract_state_path_from_arguments(arguments) == arguments.state_path

remove_schedule_state(dir, state_path) == Unlink(dir, {state_path})

\* state_dir.glob(f"{label_seed}-*.json")
remove_schedule_state_by_label(dir, label_seed) ==
    Unlink(dir, {name \in DOMAIN dir : name[1] = label_seed})

\* lines 1140-1143, 1198-1201, 1253-1256
RemoveStateOf(dir, state_path, label_seed) ==
    IF state_path # None THEN remove_schedule_state(dir, state_path[1])
    ELSE remove_schedule_state_by_label(dir, label_seed)

(***************************************************************************)
(* The crontab is the sequence of its lines: a comment line of this tool   *)
(* (CRON_COMMENT_PREFIX, the label, the fingerprint in parentheses), the   *)
(* command line of an entry, an empty line, or a line of somebody else.    *)
(***************************************************************************)
Line(kind, label, fingerprint, spec, arguments) ==
    [kind |-> kind, label |-> label, fingerprint |-> fingerprint, cron_spec |-> spec,
     arguments |-> arguments]

\* f"{comment_label} ({fingerprint})"
CommentLine(label_seed, fingerprint) == Line("comment", label_seed, Some(fingerprint), << >>, None)

\* f"{cron_spec} {command}"
CommandLine(spec, arguments) == Line("command", << >>, None, spec, Some(arguments))

EmptyLine == Line("blank", << >>, None, << >>, None)

OtherLine == Line("other", << >>, None, << >>, None)

\* not line.strip()
IsBlankLine(line) == line.kind = "blank"

IsPrefix(p, s) == Len(p) <= Len(s) /\ SubSeq(s, 1, Len(p)) = p

\* line.startswith(comment_label): a label holds no blank
StartsWithLabel(line, label_seed) == line.kind = "comment" /\ IsPrefix(label_seed, line.label)

\* del lines[index]
DeleteAt(lines, index) == SubSeq(lines, 1, index - 1) \o SubSeq(lines, index + 1, Len(lines))

\* while index < len(lines) and not lines[index].strip(): del lines[index]
DeleteBlanksAt(lines, index) ==
    LET rest == {i \in index..Len(lines) : ~IsBlankLine(lines[i])}
        next == IF rest = {} THEN Len(lines) + 1
                ELSE CHOOSE i \in rest : \A j \in rest : i <= j
    IN SubSeq(lines, 1, index - 1) \o SubSeq(lines, next, Len(lines))

\* Mutant of DeleteEntry: the entry found is kept.
DeleteEntry_keeps(lines, existing_index) == lines

\* lines 880-884
DeleteEntry(lines, existing_index) ==
    LET first == DeleteAt(lines, existing_index)
        second == IF existing_index <= Len(first) THEN DeleteAt(first, existing_index)
                  ELSE first
    IN DeleteBlanksAt(second, existing_index)

\* while new_lines and not new_lines[-1].strip(): new_lines.pop()
DropTrailingBlanks(lines) ==
    LET kept == {i \in 1..Len(lines) : ~IsBlankLine(lines[i])}
        last == IF kept = {} THEN 0 ELSE CHOOSE i \in kept : \A j \in kept : j <= i
    IN SubSeq(lines, 1, last)

\* what `crontab -l` prints after write_crontab_lines(lines):
\* ("\n".join(lines).rstrip("\n") + "\n").splitlines()
write_crontab_lines(lines) ==
    IF DropTrailingBlanks(lines) = << >> THEN <<EmptyLine>> ELSE DropTrailingBlanks(lines)

(***************************************************************************)
(* What the schedulers of the host hold: the crontab, the plists of        *)
(* ~/Library/LaunchAgents with the labels launchd has loaded, the units of *)
(* ~/.config/systemd/user with the timers systemd has enabled.             *)
(***************************************************************************)
NoRegistration ==
    [crontab |-> << >>, plists |-> EmptyDir, loaded |-> {},
     services |-> EmptyDir, timers |-> EmptyDir, enabled |-> {}]

\* what an install or a removal leaves: the exception raised, if any, and the
\* statement that raised it; the state files; the schedulers; the removed
\* count; and the effects in their order
Installed(raised, message, dir, registration, removed, events) ==
    [raised |-> raised, message |-> message, state_dir |-> dir, registered |-> registration,
     removed |-> removed, events |-> events]

\* Mutant of AlreadyExists: --schedule-overwrite is taken as given.
AlreadyExists_never(existing, overwrite) == FALSE

\* lines 874-875, 936-937, 1055: the artifact is there and may not be replaced
AlreadyExists(existing, overwrite) == existing /\ ~overwrite

\* initialize_schedule_state(state_path, ...), on the directory of state files
InitializeAt(dir, state_path, spec, overwrite, wall) ==
    initialize_schedule_state(StateAt(dir, state_path), split(spec), overwrite, wall)

\* Mutant of StoreAt: the state file is not written.
StoreAt_nowhere(dir, state_path, state) == dir

\* the state files once initialize_schedule_state has returned
StoreAt(dir, state_path, state) ==
    IF state.file = StateAt(dir, state_path) THEN dir ELSE WriteFile(dir, state_path, state.file)

\* lines 852-889; tool_ok: `crontab -` takes the new lines
install_cron_job(a, dir, registration, host, wall, tool_ok) ==
    LET label_seed == a.schedule_label
        \* lines 864-889, once the state file is initialized
        Register(spec, state_path, state) ==
            LET lines == registration.crontab
                found == {i \in 1..Len(lines) : StartsWithLabel(lines[i], label_seed)}
                existing_index == CHOOSE i \in found : \A j \in found : i <= j
                cleared == IF found # {} THEN DeleteEntry(lines, existing_index) ELSE lines
                spaced == IF cleared # << >> /\ ~IsBlankLine(cleared[Len(cleared)])
                          THEN Append(cleared, EmptyLine) ELSE cleared
                written == spaced \o <<CommentLine(label_seed, state_path[2]),
                                       CommandLine(spec, build_program_arguments(a, spec,
                                                                                 state_path))>>
            IN IF state.raised # ""
               THEN Installed(state.raised, "state", dir, registration, 0, << >>)
               ELSE IF AlreadyExists(found # {}, a.schedule_overwrite)
                    THEN Installed("RuntimeError", "already exists",
                                   StoreAt(dir, state_path, state), registration, 0, <<"state">>)
               ELSE IF ~tool_ok
                    THEN Installed("RuntimeError", "crontab", StoreAt(dir, state_path, state),
                                   registration, 0, <<"state">>)
               ELSE Installed("", "", StoreAt(dir, state_path, state),
                              [registration EXCEPT !.crontab = write_crontab_lines(written)],
                              0, <<"state", "crontab">>)
        \* lines 855-862, once the schedule is prepared
        Schedule(prepared) ==
            IF prepared.raised # ""
            THEN Installed(prepared.raised, "schedule", dir, registration, 0, << >>)
            ELSE Register(prepared.value[1],
                          build_state_path(label_seed,
                                           Fingerprint(a.command, prepared.value[1])),
                          InitializeAt(dir,
                                       build_state_path(label_seed,
                                                        Fingerprint(a.command,
                                                                    prepared.value[1])),
                                       prepared.value[1], a.schedule_overwrite, wall))
    IN Schedule(prepare_schedule(a.schedule, a.schedule_timezone, a.local_zone, wall))

\* f"{LAUNCHD_LABEL_PREFIX}{label_seed}", and the payload of lines 949-957
Plist(label_seed, arguments, interval) ==
    [Label |-> label_seed, ProgramArguments |-> arguments, StartCalendarInterval |-> interval]

\* lines 912-972; tool_ok: launchctl bootstrap returns 0
install_launchd_job(a, dir, registration, host, wall, tool_ok) ==
    LET label_seed == a.schedule_label
        existing == label_seed \in DOMAIN registration.plists
        \* line 941: launchctl bootout, whatever it returns
        booted_out == IF existing
                      THEN [registration EXCEPT !.loaded = @ \ {label_seed}]
                      ELSE registration
        \* lines 925-972, once the state file is initialized
        Register(spec, interval, state_path, state) ==
            LET written == [booted_out EXCEPT
                              !.plists = WriteFile(@, label_seed,
                                            Plist(label_seed,
                                                  build_program_arguments(a, spec, state_path),
                                                  interval))]
                teardown == IF existing THEN <<"state", "bootout">> ELSE <<"state">>
            IN IF state.raised # ""
               THEN Installed(state.raised, "state", dir, registration, 0, << >>)
               ELSE IF AlreadyExists(existing, a.schedule_overwrite)
                    THEN Installed("RuntimeError", "already exists",
                                   StoreAt(dir, state_path, state), registration, 0, <<"state">>)
               ELSE IF ~tool_ok
                    THEN Installed("RuntimeError", "launchctl", StoreAt(dir, state_path, state),
                                   written, 0, teardown \o <<"plist">>)
               ELSE Installed("", "", StoreAt(dir, state_path, state),
                              [written EXCEPT !.loaded = @ \cup {label_seed}],
                              0, teardown \o <<"plist", "bootstrap">>)
        \* lines 916-923, once the spec is converted
        Convert(spec, interval) ==
            IF interval.raised # ""
            THEN Installed(interval.raised, "converter", dir, registration, 0, << >>)
            ELSE Register(spec, interval.value,
                          build_state_path(label_seed, Fingerprint(a.command, spec)),
                          InitializeAt(dir,
                                       build_state_path(label_seed,
                                                        Fingerprint(a.command, spec)),
                                       spec, a.schedule_overwrite, wall))
        \* lines 914-915, once the schedule is prepared
        Schedule(prepared) ==
            IF prepared.raised # ""
            THEN Installed(prepared.raised, "schedule", dir, registration, 0, << >>)
            ELSE Convert(prepared.value[1], cron_to_launchd_interval(prepared.value[1]))
    IN IF require_backend_supported("launchd", host).raised # ""
       THEN Installed("RuntimeError", "unsupported", dir, registration, 0, << >>)
       ELSE Schedule(prepare_schedule(a.schedule, a.schedule_timezone, a.local_zone, wall))

\* the service unit (its ExecStart line) and the timer unit (its OnCalendar line)
ServiceUnit(arguments) == [ExecStart |-> arguments]

TimerUnit(calendar_spec) == [OnCalendar |-> calendar_spec]

\* lines 996-1096; tool_ok: systemctl daemon-reload and enable return 0
install_systemd_job(a, dir, registration, host, wall, tool_ok) ==
    LET label_seed == a.schedule_label
        existing == label_seed \in DOMAIN registration.services
                        \/ label_seed \in DOMAIN registration.timers
        timer_exists == label_seed \in DOMAIN registration.timers
        \* line 1061: systemctl disable --now, whatever it returns
        disabled == IF timer_exists
                    THEN [registration EXCEPT !.enabled = @ \ {label_seed}]
                    ELSE registration
        \* lines 1012-1096, once the state file is initialized
        Register(spec, calendar_spec, state_path, state) ==
            LET written == [disabled EXCEPT
                              !.services = WriteFile(@, label_seed,
                                              ServiceUnit(build_program_arguments(a, spec,
                                                                                  state_path))),
                              !.timers = WriteFile(@, label_seed, TimerUnit(calendar_spec))]
                teardown == IF timer_exists THEN <<"state", "disable">> ELSE <<"state">>
            IN IF state.raised # ""
               THEN Installed(state.raised, "state", dir, registration, 0, << >>)
               ELSE IF AlreadyExists(existing, a.schedule_overwrite)
                    THEN Installed("RuntimeError", "already exists",
                                   StoreAt(dir, state_path, state), registration, 0, <<"state">>)
               ELSE IF ~tool_ok
                    THEN Installed("RuntimeError", "systemctl", StoreAt(dir, state_path, state),
                                   written, 0, teardown \o <<"units">>)
               ELSE Installed("", "", StoreAt(dir, state_path, state),
                              [written EXCEPT !.enabled = @ \cup {label_seed}],
                              0, teardown \o <<"units", "enable">>)
        \* lines 1003-1010, once the spec is converted
        Convert(spec, calendar_spec) ==
            IF calendar_spec.raised # ""
            THEN Installed(calendar_spec.raised, "converter", dir, registration, 0, << >>)
            ELSE Register(spec, calendar_spec.value,
                          build_state_path(label_seed, Fingerprint(a.command, spec)),
                          InitializeAt(dir,
                                       build_state_path(label_seed,
                                                        Fingerprint(a.command, spec)),
                                       spec, a.schedule_overwrite, wall))
        \* lines 1001-1002, once the schedule is prepared
        Schedule(prepared) ==
            IF prepared.raised # ""
            THEN Installed(prepared.raised, "schedule", dir, registration, 0, << >>)
            ELSE Convert(prepared.value[1], cron_to_systemd_calendar(prepared.value[1]))
    IN IF require_backend_supported("systemd", host).raised # ""
       THEN Installed("RuntimeError", "unsupported", dir, registration, 0, << >>)
       ELSE IF ~host.systemctl
            THEN Installed("RuntimeError", "systemctl not found", dir, registration, 0, << >>)
       ELSE Schedule(prepare_schedule(a.schedule, a.schedule_timezone, a.local_zone, wall))

(***************************************************************************)
(* Removal of every job of a backend.                                      *)
(***************************************************************************)
\* the state path a crontab line carries, if it is a command line of the tool
extract_state_path_from_command_line(line) ==
    IF line.kind = "command" THEN extract_state_path_from_arguments(line.arguments[1])
    ELSE None

\* the loop of lines 1128-1152: what it has kept, counted and left of the
\* state files when it has read the lines before `index`
RECURSIVE ScanCrontab(_, _, _, _, _)
ScanCrontab(lines, index, new_lines, removed_jobs, dir) ==
    IF index > Len(lines)
    THEN [new_lines |-> new_lines, removed_jobs |-> removed_jobs, state_dir |-> dir]
    ELSE IF lines[index].kind = "comment"
         THEN LET command_line == IF index + 1 <= Len(lines) THEN lines[index + 1]
                                  ELSE EmptyLine
              IN ScanCrontab(lines, index + 2,
                             IF new_lines # << >> /\ IsBlankLine(new_lines[Len(new_lines)])
                             THEN SubSeq(new_lines, 1, Len(new_lines) - 1) ELSE new_lines,
                             removed_jobs + 1,
                             RemoveStateOf(dir,
                                           extract_state_path_from_command_line(command_line),
                                           lines[index].label))
    ELSE ScanCrontab(lines, index + 1, Append(new_lines, lines[index]), removed_jobs, dir)

\* Mutant of remove_mailmerge_cron_jobs: the count is of the lines removed.
remove_mailmerge_cron_jobs_lines(dir, registration, host, tool_ok) ==
    LET Finish(scan) ==
            IF scan.removed_jobs = 0
            THEN Installed("", "", scan.state_dir, registration, 0, << >>)
            ELSE IF ~tool_ok
                 THEN Installed("RuntimeError", "crontab", scan.state_dir, registration, 0,
                                <<"state">>)
            ELSE Installed("", "", scan.state_dir,
                           [registration EXCEPT
                              !.crontab = write_crontab_lines(DropTrailingBlanks(scan.new_lines))],
                           2 * scan.removed_jobs, <<"state", "crontab">>)
    IN IF registration.crontab = << >> THEN Installed("", "", dir, registration, 0, << >>)
       ELSE Finish(ScanCrontab(registration.crontab, 1, << >>, 0, dir))

\* Mutant of remove_mailmerge_cron_jobs: the crontab is written back whether
\* a job was found or not.
remove_mailmerge_cron_jobs_rewrites(dir, registration, host, tool_ok) ==
    LET Finish(scan) ==
            IF ~tool_ok
            THEN Installed("RuntimeError", "crontab", scan.state_dir, registration, 0,
                           <<"state">>)
            ELSE Installed("", "", scan.state_dir,
                           [registration EXCEPT
                              !.crontab = write_crontab_lines(DropTrailingBlanks(scan.new_lines))],
                           scan.removed_jobs, <<"state", "crontab">>)
    IN Finish(ScanCrontab(registration.crontab, 1, << >>, 0, dir))

\* lines 1120-1160; tool_ok: `crontab -` takes the new lines
remove_mailmerge_cron_jobs(dir, registration, host, tool_ok) ==
    LET Finish(scan) ==
            IF scan.removed_jobs = 0
            THEN Installed("", "", scan.state_dir, registration, 0, << >>)
            ELSE IF ~tool_ok
                 THEN Installed("RuntimeError", "crontab", scan.state_dir, registration, 0,
                                <<"state">>)
            ELSE Installed("", "", scan.state_dir,
                           [registration EXCEPT
                              !.crontab = write_crontab_lines(DropTrailingBlanks(scan.new_lines))],
                           scan.removed_jobs, <<"state", "crontab">>)
    IN IF registration.crontab = << >> THEN Installed("", "", dir, registration, 0, << >>)
       ELSE Finish(ScanCrontab(registration.crontab, 1, << >>, 0, dir))

\* the state files the loops of lines 1171-1201 and 1218-1256 delete, given
\* of every job removed its label and the state path its artifact carries
StatesRemoved(dir, jobs) ==
    UNION { IF job[2] # None THEN {job[2][1]} ELSE {name \in DOMAIN dir : name[1] = job[1]} :
            job \in jobs }

\* lines 1163-1202: the result of launchctl bootout is not looked at
remove_launchd_jobs(dir, registration, host, tool_ok) ==
    LET plists == registration.plists
        jobs == { <<label_seed,
                    extract_state_path_from_arguments(plists[label_seed].ProgramArguments)>> :
                  label_seed \in DOMAIN plists }
    IN IF require_backend_supported("launchd", host).raised # ""
       THEN Installed("RuntimeError", "unsupported", dir, registration, 0, << >>)
       ELSE Installed("", "", Unlink(dir, StatesRemoved(dir, jobs)),
                      [registration EXCEPT !.plists = EmptyDir,
                                           !.loaded = @ \ DOMAIN plists],
                      Cardinality(DOMAIN plists), << >>)

\* lines 1205-1266: the timers are enumerated, and a service is removed with
\* its timer
remove_systemd_jobs(dir, registration, host, tool_ok) ==
    LET timers == DOMAIN registration.timers
        services == registration.services
        jobs == { <<label_seed,
                    IF label_seed \in DOMAIN services
                    THEN extract_state_path_from_arguments(services[label_seed].ExecStart)
                    ELSE None>> :
                  label_seed \in timers }
    IN IF require_backend_supported("systemd", host).raised # ""
       THEN Installed("RuntimeError", "unsupported", dir, registration, 0, << >>)
       ELSE Installed("", "", Unlink(dir, StatesRemoved(dir, jobs)),
                      [registration EXCEPT
                         !.timers = EmptyDir,
                         !.services = Unlink(@, timers),
                         !.enabled = IF host.systemctl THEN @ \ timers ELSE @],
                      Cardinality(timers), << >>)

\* main, lines 1549-1614: the backend is determined outside every try
main(a, dir, registration, host, wall, tool_ok) ==
    LET Dispatch(backend) ==
            IF backend.raised # ""
            THEN Installed(backend.raised, "unsupported", dir, registration, 0, << >>)
            ELSE IF a.schedule_remove_all
                 THEN CASE backend.value = "cron" ->
                               remove_mailmerge_cron_jobs(dir, registration, host, tool_ok)
                        [] backend.value = "launchd" ->
                               remove_launchd_jobs(dir, registration, host, tool_ok)
                        [] backend.value = "systemd" ->
                               remove_systemd_jobs(dir, registration, host, tool_ok)
            ELSE CASE backend.value = "cron" ->
                          install_cron_job(a, dir, registration, host, wall, tool_ok)
                   [] backend.value = "launchd" ->
                          install_launchd_job(a, dir, registration, host, wall, tool_ok)
                   [] backend.value = "systemd" ->
                          install_systemd_job(a, dir, registration, host, wall, tool_ok)
    IN Dispatch(determine_backend(a.schedule_backend, host))

(***************************************************************************)
(* An invocation that is no removal: it installs, or it sends, after it    *)
(* has asked the state file when the invocation carries one.  An option    *)
(* is None when the flag is absent and Some(text) when it is given; the    *)
(* text of a flag given with the empty string is << >>.                    *)
(***************************************************************************)
\* `if args.schedule:`, `args.schedule_state and args.schedule_spec`: the
\* truth value of an optional string
TruthyText(option) == option # None /\ option[1] # << >>

\* what an invocation leaves: the exit status, whether send_messages was
\* called, whether an install ran, what update_schedule_state did ("" when
\* it was not called, "raised", "due" or "not due"), and the files
Invoked(status, sent, installed, evaluation, file, dir, registration) ==
    [status |-> status, sent |-> sent, installed |-> installed, evaluation |-> evaluation,
     file |-> file, state_dir |-> dir, registered |-> registration]

\* main, lines 1603-1671; file: what is at the path of --schedule-state;
\* loads: the recipients, the templates and the credentials are there
main_invocation(a, file, dir, registration, host, wall, tool_ok, loads) ==
    LET \* lines 1627-1671
        Send(f, evaluation) ==
            IF loads THEN Invoked(0, TRUE, FALSE, evaluation, f, dir, registration)
            ELSE Invoked(1, FALSE, FALSE, evaluation, f, dir, registration)
        \* lines 1616-1625
        Evaluated(out) ==
            IF out.raised # ""
            THEN Invoked(1, FALSE, FALSE, "raised", out.file, dir, registration)
            ELSE IF ~out.due
                 THEN Invoked(0, FALSE, FALSE, "not due", out.file, dir, registration)
            ELSE Send(out.file, "due")
        \* lines 1603-1614
        Install(out) ==
            Invoked(IF out.raised = "" THEN 0 ELSE 1, FALSE, TRUE, "", file,
                    out.state_dir, out.registered)
    IN IF TruthyText(a.schedule)
       THEN Install(main([a EXCEPT !.schedule = a.schedule[1]], dir, registration, host,
                         wall, tool_ok))
       ELSE IF a.schedule_state # None /\ TruthyText(a.schedule_spec)
            THEN Evaluated(update_schedule_state(split(a.schedule_spec[1]), file, wall))
       ELSE Send(file, "")

(***************************************************************************)
(* The send loop.  A row of the recipient table is the text of its         *)
(* recipient column; the result is the positions of the rows a message     *)
(* was built and sent (or previewed) for.                                  *)
(***************************************************************************)
\* rows[:stop], the slice of Python: a negative stop counts from the end
SliceTo(rows, stop) ==
    IF stop >= 0 THEN SubSeq(rows, 1, IF stop < Len(rows) THEN stop ELSE Len(rows))
    ELSE SubSeq(rows, 1, IF Len(rows) + stop > 0 THEN Len(rows) + stop ELSE 0)

\* lines 1299-1541: a row without a recipient is passed over
send_messages(rows, limit) ==
    LET total == IF limit = None THEN Len(rows)
                 ELSE IF limit[1] < Len(rows) THEN limit[1] ELSE Len(rows)
    IN IF total = 0 THEN {}
       ELSE {index \in 1..Len(SliceTo(rows, total)) : SliceTo(rows, total)[index] # ""}

(***************************************************************************)
(* Inputs: the cron specs and the state-file contents the model draws.     *)
(***************************************************************************)
Tokens(values) == {"*"} \cup {ToString(n) : n \in values}

\* Every field a wildcard or a value of its range; the day field reaches
\* DaysPerMonth, a day the short month 2 does not have; the weekday is written
\* as Sunday (0 or 7) or Monday (1).
CronSpecs ==
    { <<mi, h, d, mo, wd>> :
        mi \in Tokens(0..(MinutesPerHour - 1)), h \in Tokens(0..(HoursPerDay - 1)),
        d \in Tokens(1..DaysPerMonth), mo \in Tokens(1..MonthsPerYear),
        wd \in Tokens({0, 1, DaysPerWeek}) }

\* The specs of the jobs of the state machine: every field a wildcard or the
\* value of the epoch (minute 0, hour 0, day 1, month 1, a Monday).
JobSpecs ==
    { <<mi, h, d, mo, wd>> :
        mi \in Tokens({0}), h \in Tokens({0}), d \in Tokens({1}), mo \in Tokens({1}),
        wd \in Tokens({1}) }

StoredTimes == 0..MaxClock

NextDueContents ==
    {JMissing, JNull, JNumber, JString(Str("", << >>)), JString(Str("junk", << >>)),
     JString(isoformat_aware(TicksPerMinute))}
    \cup {JString(isoformat(t)) : t \in StoredTimes}

LastRunContents == {JMissing, JNull, JString(isoformat(0))}

FileContents ==
    {NoFile, FileOf("invalid", JMissing, JMissing), FileOf("array", JMissing, JMissing)}
    \cup {FileOf("object", nd, lr) : nd \in NextDueContents, lr \in LastRunContents}

\* The schedule expressions a user may give.  Cron texts: every field a
\* wildcard or a value, the weekday also 8, which no week has.
FiveFields ==
    { <<mi, h, d, mo, wd>> :
        mi \in {"*", "1"}, h \in {"*", "0"}, d \in {"*", "2"}, mo \in {"*", "3"},
        wd \in {"*", "0", ToString(DaysPerWeek), ToString(DaysPerWeek + 1)} }

\* values that no minute, hour, day or month has; a range; words
OddFields ==
    { <<ToString(MinutesPerHour), ToString(HoursPerDay), ToString(DaysPerMonth + 1),
        ToString(MonthsPerYear + 1), "*">>,
      <<"0", "0", "0", "0", "*">>,
      <<"0", "0", "*", "*", "1-5">>,
      <<"every", "day", "at", "nine", "sharp">> }

SixFields == { <<"1", "0", "*", "*", "*", "0">>, <<"1", "0", "2", "*", "*", "1">>,
               <<"*", "*", "*", "*", "*", "*">> }

\* the same fields with other white space around and between them
Padded(fields) ==
    <<Blank>> \o CronText(SubSeq(fields, 1, 2)) \o <<Blank, Blank>>
        \o CronText(SubSeq(fields, 3, Len(fields))) \o <<Blank, LineBreak>>

CronTexts ==
    {CronText(f) : f \in FiveFields \cup OddFields \cup SixFields}
    \cup {Padded(f) : f \in {<<"1", "0", "*", "*", "*">>, <<"1", "0", "*", "*", "*", "0">>}}

\* texts that are no schedule: nothing, white space, too few or too many
\* fields, two lines
BrokenTexts ==
    { << >>, <<Blank>>, <<LineBreak>>, CronText(<<"1", "0", "*", "*">>),
      CronText(<<"1", "0", "*", "*", "*", "*", "*">>), <<Word("1")>>,
      CronText(<<"1", "0", "*">>) \o <<LineBreak>> \o CronText(<<"*", "*">>) }

MacroTexts ==
    {<<Word(macro)>> : macro \in AtWords}
    \cup { <<Blank, Word("@daily"), Blank>>, <<Word("@hourly"), LineBreak>>,
           CronText(<<"@daily", "1">>), CronText(<<"@reboot", "0", "*", "*", "*">>) }

Zones == (-MaxOffset)..MaxOffset
Offsets == {None} \cup {Some(zone) : zone \in Zones}

\* ISO times of day: every minute of the day, and one with seconds
IsoTimes ==
    {IsoTime(<<h, mi, 0>>, offset) :
        h \in 0..(HoursPerDay - 1), mi \in 0..(MinutesPerHour - 1), offset \in Offsets}
    \cup {IsoTime(<<0, 1, 1>>, None)}

\* ISO date-times: the first and the last minute of each month of year 1, and
\* one with seconds
IsoInstants ==
    {(DaysPerYear + DaysBeforeMonth(m)) * TicksPerDay : m \in 1..MonthsPerYear}
    \cup {(DaysPerYear + DaysBeforeMonth(m + 1)) * TicksPerDay - TicksPerMinute :
              m \in 1..MonthsPerYear}

IsoDateTimes ==
    {IsoDateTime(isoformat(t).fields, offset) : t \in IsoInstants, offset \in Offsets}
    \cup {IsoDateTime(isoformat(DaysPerYear * TicksPerDay + TicksPerHour + 1).fields, None)}

IsoTexts ==
    {<<token>> : token \in IsoTimes \cup IsoDateTimes}
    \cup {<<Blank, IsoTime(<<0, 1, 0>>, None), Blank>>}

ScheduleArgs ==
    [schedule : CronTexts \cup BrokenTexts \cup MacroTexts \cup IsoTexts,
     schedule_timezone : Offsets, local_zone : Zones]

(***************************************************************************)
(* The state machine of one job: the clock ticks, and the installer or a   *)
(* scheduled invocation calls into the due-time state machine.             *)
(***************************************************************************)
\* A call record: the operation, its arguments (overwrite, the wall clock `at`, the
\* state file `pre` it found), its outcome, and in `prior` the check_and_advance
\* call that came right before it with the clock unchanged, if there was one.
NoPrior == [op |-> "none", at |-> 0, pre |-> NoFile, raised |-> "", due |-> FALSE]

NoCall ==
    [op |-> "none", overwrite |-> FALSE, at |-> 0, pre |-> NoFile,
     raised |-> "", due |-> FALSE, next_due |-> 0, aware |-> FALSE, prior |-> NoPrior]

CallRecord(op, overwrite, at, pre, out, prior) ==
    [op |-> op, overwrite |-> overwrite, at |-> at, pre |-> pre,
     raised |-> out.raised, due |-> out.due, next_due |-> out.next_due, aware |-> out.aware,
     prior |-> prior]

PriorOf(call) ==
    IF call.op = "update"
    THEN [op |-> call.op, at |-> call.at, pre |-> call.pre, raised |-> call.raised,
          due |-> call.due]
    ELSE NoPrior

NoProbe ==
    [called |-> FALSE, start |-> 0, later |-> 0, first |-> Raise(""), second |-> Raise("")]

\* no schedule asked for, no call made
NoArgs == [schedule |-> << >>, schedule_timezone |-> None, local_zone |-> 0]
NoOutcome == [op |-> "none"]

Init ==
    /\ cron_spec \in JobSpecs
    /\ clock = TicksPerMinute
    /\ state_file \in FileContents
    /\ returned = NoCall
    /\ probe = NoProbe
    /\ args = NoArgs
    /\ outcome = NoOutcome
    /\ registered = NoRegistration
    /\ state_dir = EmptyDir
    /\ platform = Host("linux", TRUE)
    /\ calls = 0

\* a job as the installer first meets it: no state file yet
InitJob ==
    /\ cron_spec \in JobSpecs
    /\ clock = TicksPerMinute
    /\ state_file = NoFile
    /\ returned = NoCall
    /\ probe = NoProbe
    /\ args = NoArgs
    /\ outcome = NoOutcome
    /\ registered = NoRegistration
    /\ state_dir = EmptyDir
    /\ platform = Host("linux", TRUE)
    /\ calls = 0

Tick ==
    /\ clock < MaxClock
    /\ clock' = clock + 1
    /\ returned' = NoCall
    /\ UNCHANGED <<cron_spec, state_file, probe, args, outcome, registered,
                 state_dir, platform, calls>>

Initialize ==
    \E overwrite \in BOOLEAN :
        LET out == initialize_schedule_state(state_file, cron_spec, overwrite, clock)
        IN /\ state_file' = out.file
           /\ returned' = CallRecord("initialize", overwrite, clock, state_file, out, NoPrior)
           /\ UNCHANGED <<cron_spec, clock, probe, args, outcome, registered,
                 state_dir, platform, calls>>

CheckAndAdvance ==
    LET out == update_schedule_state(cron_spec, state_file, clock)
    IN /\ state_file' = out.file
       /\ returned' = CallRecord("update", FALSE, clock, state_file, out, PriorOf(returned))
       /\ UNCHANGED <<cron_spec, clock, probe, args, outcome, registered,
                 state_dir, platform, calls>>

Next == Tick \/ Initialize \/ CheckAndAdvance

Spec == Init /\ [][Next]_vars

SpecJob == InitJob /\ [][Next]_vars

(***************************************************************************)
(* next_run_time called directly, on any spec, from two start times.       *)
(***************************************************************************)
InitNextRun ==
    /\ cron_spec \in CronSpecs
    /\ clock = 0
    /\ state_file = NoFile
    /\ returned = NoCall
    /\ probe = NoProbe
    /\ args = NoArgs
    /\ outcome = NoOutcome
    /\ registered = NoRegistration
    /\ state_dir = EmptyDir
    /\ platform = Host("linux", TRUE)
    /\ calls = 0

NextRun ==
    \E start \in 0..MaxStart, gap \in 0..MaxGap :
        /\ probe = NoProbe
        /\ probe' = [called |-> TRUE, start |-> start, later |-> start + gap,
                     first |-> next_run_time(cron_spec, start),
                     second |-> next_run_time(cron_spec, start + gap)]
        /\ UNCHANGED <<cron_spec, clock, state_file, returned, args, outcome, registered,
                 state_dir, platform, calls>>

SpecNextRun == InitNextRun /\ [][NextRun]_vars

(***************************************************************************)
(* cron_matches called directly, on any spec and any instant of the first  *)
(* MaxInstantDays days.                                                    *)
(***************************************************************************)
Matches ==
    \E dt_value \in 0..(MaxInstantDays * TicksPerDay - 1) :
        LET f == parse_cron_spec(cron_spec).value
        IN /\ outcome.op = "none"
           /\ outcome' = [op |-> "matches", dt_value |-> dt_value,
                          result |-> cron_matches(dt_value, f[1], f[2], f[3], f[4], f[5])]
           /\ UNCHANGED <<cron_spec, clock, state_file, returned, probe, args, registered,
                 state_dir, platform, calls>>

SpecMatches == InitNextRun /\ [][Matches]_vars

(***************************************************************************)
(* The normalizer and the converters called on what a user may give.       *)
(***************************************************************************)
InitSchedule ==
    /\ args \in ScheduleArgs
    /\ cron_spec = << >>
    /\ clock = TicksPerMinute
    /\ state_file = NoFile
    /\ returned = NoCall
    /\ probe = NoProbe
    /\ outcome = NoOutcome
    /\ registered = NoRegistration
    /\ state_dir = EmptyDir
    /\ platform = Host("linux", TRUE)
    /\ calls = 0

\* what prepare_schedule makes of the arguments
Prepared == prepare_schedule(args.schedule, args.schedule_timezone, args.local_zone, clock)

Normalize ==
    /\ outcome' = [op |-> "normalize",
                   result |-> normalize_schedule(args.schedule, args.schedule_timezone,
                                                 args.local_zone, clock)]
    /\ UNCHANGED <<cron_spec, clock, state_file, returned, probe, args, registered,
                 state_dir, platform, calls>>

Prepare ==
    /\ outcome' = [op |-> "prepare", result |-> Prepared]
    /\ UNCHANGED <<cron_spec, clock, state_file, returned, probe, args, registered,
                 state_dir, platform, calls>>

\* lines 914-915
ConvertLaunchd ==
    /\ Prepared.raised = ""
    /\ outcome' = [op |-> "launchd", result |-> cron_to_launchd_interval(Prepared.value[1])]
    /\ UNCHANGED <<cron_spec, clock, state_file, returned, probe, args, registered,
                 state_dir, platform, calls>>

\* lines 1001-1002
ConvertSystemd ==
    /\ Prepared.raised = ""
    /\ outcome' = [op |-> "systemd", result |-> cron_to_systemd_calendar(Prepared.value[1])]
    /\ UNCHANGED <<cron_spec, clock, state_file, returned, probe, args, registered,
                 state_dir, platform, calls>>

NextSchedule == Normalize \/ Prepare \/ ConvertLaunchd \/ ConvertSystemd

SpecSchedule == InitSchedule /\ [][NextSchedule]_vars

(***************************************************************************)
(* The jobs of a host: runs of main that install a job on a backend or     *)
(* remove every job of a backend, each over whatever the runs before it    *)
(* have left.                                                              *)
(***************************************************************************)
MaxCalls == 3

\* the arguments of a mail merge, none of more than one line
MailMerge == << <<"mailmerge">> >>

\* two labels, one a prefix of the other
Labels == {<<"a">>, <<"a", "b">>}

BackendChoices == {"auto"} \cup Backends

Hosts == {Host("darwin", FALSE), Host("linux", TRUE), Host("linux", FALSE),
          Host("win32", FALSE)}

\* two schedules every backend takes, and one with a wildcard minute, which
\* cron alone takes
JobSchedules ==
    { CronText(<<"1", "0", "*", "*", "*">>), CronText(<<"0", "1", "*", "*", "*">>),
      CronText(<<"*", "0", "*", "*", "*">>) }

\* --schedule, with or without --schedule-label's overwrite, on a backend;
\* no timezone hint, the local zone UTC
InstallArgs ==
    [schedule : JobSchedules, schedule_timezone : {None}, local_zone : {0},
     schedule_label : Labels, schedule_overwrite : BOOLEAN, schedule_backend : BackendChoices,
     schedule_remove_all : {FALSE}, command : {MailMerge}]

\* --schedule-remove-all on a backend
RemoveArgs ==
    [schedule : {<< >>}, schedule_timezone : {None}, local_zone : {0},
     schedule_label : {<< >>}, schedule_overwrite : {FALSE}, schedule_backend : BackendChoices,
     schedule_remove_all : {TRUE}, command : {MailMerge}]

\* no job yet
InitInstall ==
    /\ args = NoArgs
    /\ cron_spec = << >>
    /\ clock = TicksPerMinute
    /\ state_file = NoFile
    /\ returned = NoCall
    /\ probe = NoProbe
    /\ outcome = NoOutcome
    /\ registered = NoRegistration
    /\ state_dir = EmptyDir
    /\ platform \in Hosts
    /\ calls = 0

\* what a run of main leaves
Ran(op, a, tool_ok, out) ==
    /\ state_dir' = out.state_dir
    /\ registered' = out.registered
    /\ outcome' = [op |-> op, args |-> a, tool_ok |-> tool_ok,
                   backend |-> determine_backend(a.schedule_backend, platform),
                   raised |-> out.raised, message |-> out.message, removed |-> out.removed,
                   events |-> out.events, pre_state_dir |-> state_dir,
                   pre_registered |-> registered]
    /\ calls' = calls + 1
    /\ UNCHANGED <<cron_spec, clock, state_file, returned, probe, args, platform>>

\* main with --schedule
Install ==
    /\ calls < MaxCalls
    /\ \E a \in InstallArgs, tool_ok \in BOOLEAN :
           Ran("install", a, tool_ok, main(a, state_dir, registered, platform, clock, tool_ok))

\* main with --schedule-remove-all
RemoveAll ==
    /\ calls < MaxCalls
    /\ \E a \in RemoveArgs, tool_ok \in BOOLEAN :
           Ran("remove", a, tool_ok, main(a, state_dir, registered, platform, clock, tool_ok))

NextInstall == Install \/ RemoveAll

SpecInstall == InitInstall /\ [][NextInstall]_vars

(***************************************************************************)
(* The crontab of a host that has cron alone: longer runs of installs and  *)
(* removals of two labels, one a prefix of the other.                      *)
(***************************************************************************)
MaxCronCalls == 4

CronSchedules ==
    { CronText(<<"1", "0", "*", "*", "*">>), CronText(<<"0", "1", "*", "*", "*">>) }

CronInstallArgs ==
    [schedule : CronSchedules, schedule_timezone : {None}, local_zone : {0},
     schedule_label : Labels, schedule_overwrite : BOOLEAN, schedule_backend : {"auto", "cron"},
     schedule_remove_all : {FALSE}, command : {MailMerge}]

InitCron ==
    /\ args = NoArgs
    /\ cron_spec = << >>
    /\ clock = TicksPerMinute
    /\ state_file = NoFile
    /\ returned = NoCall
    /\ probe = NoProbe
    /\ outcome = NoOutcome
    /\ registered = NoRegistration
    /\ state_dir = EmptyDir
    /\ platform = Host("linux", FALSE)
    /\ calls = 0

\* main with --schedule, where `crontab -` takes the new lines
InstallCron ==
    /\ calls < MaxCronCalls
    /\ \E a \in CronInstallArgs :
           Ran("install", a, TRUE, main(a, state_dir, registered, platform, clock, TRUE))

\* main with --schedule-remove-all
RemoveAllCron ==
    /\ calls < MaxCronCalls
    /\ \E tool_ok \in BOOLEAN :
           LET a == [schedule |-> << >>, schedule_timezone |-> None, local_zone |-> 0,
                     schedule_label |-> << >>, schedule_overwrite |-> FALSE,
                     schedule_backend |-> "cron", schedule_remove_all |-> TRUE,
                     command |-> MailMerge]
           IN Ran("remove", a, tool_ok,
                  main(a, state_dir, registered, platform, clock, tool_ok))

NextCron == InstallCron \/ RemoveAllCron

SpecCron == InitCron /\ [][NextCron]_vars

(***************************************************************************)
(* A crontab that its owner also edits: lines of other jobs, blank lines,  *)
(* an entry of the tool, and a comment line of the tool that has lost its  *)
(* command line; then one more run of main.                                *)
(***************************************************************************)
MaxBlocks == 3

\* a line of somebody else
ForeignLine(text) == Line("other", <<text>>, None, << >>, None)

\* the entry an install of label a has written
EntryOf(label_seed, spec) ==
    <<CommentLine(label_seed, Fingerprint(MailMerge, spec)),
      CommandLine(spec,
                  build_program_arguments([command |-> MailMerge], spec,
                                          build_state_path(label_seed,
                                                           Fingerprint(MailMerge, spec))))>>

Blocks ==
    { <<ForeignLine("backup")>>, <<ForeignLine("other")>>, <<EmptyLine>>,
      EntryOf(<<"a">>, CronText(<<"1", "0", "*", "*", "*">>)),
      <<CommentLine(<<"a">>, Fingerprint(MailMerge, CronText(<<"1", "0", "*", "*", "*">>)))>> }

RECURSIVE Crontabs(_)
Crontabs(n) ==
    IF n = 0 THEN {<< >>}
    ELSE Crontabs(n - 1) \cup {lines \o block : lines \in Crontabs(n - 1), block \in Blocks}

InitCrontab ==
    /\ args = NoArgs
    /\ cron_spec = << >>
    /\ clock = TicksPerMinute
    /\ state_file = NoFile
    /\ returned = NoCall
    /\ probe = NoProbe
    /\ outcome = NoOutcome
    /\ registered \in {[NoRegistration EXCEPT !.crontab = lines] : lines \in Crontabs(MaxBlocks)}
    /\ state_dir = EmptyDir
    /\ platform = Host("linux", FALSE)
    /\ calls = MaxCronCalls - 1

SpecCrontab == InitCrontab /\ [][NextCron]_vars

(***************************************************************************)
(* The state files of a Linux host with cron and systemd: two installs,    *)
(* of mail merges that differ in their arguments.                          *)
(***************************************************************************)
MaxPathCalls == 2

\* --reply-to with a value of one line, the same with --dry-run after it, and
\* --reply-to with a value of two lines, the second "--dry-run"
Commands ==
    { << <<"--reply-to">>, <<"r">> >>,
      << <<"--reply-to">>, <<"r">>, <<"--dry-run">> >>,
      << <<"--reply-to">>, <<"r", "--dry-run">> >> }

PathInstallArgs ==
    [schedule : CronSchedules, schedule_timezone : {None}, local_zone : {0},
     schedule_label : Labels, schedule_overwrite : BOOLEAN,
     schedule_backend : {"cron", "systemd"}, schedule_remove_all : {FALSE},
     command : Commands]

InitPaths ==
    /\ args = NoArgs
    /\ cron_spec = << >>
    /\ clock = TicksPerMinute
    /\ state_file = NoFile
    /\ returned = NoCall
    /\ probe = NoProbe
    /\ outcome = NoOutcome
    /\ registered = NoRegistration
    /\ state_dir = EmptyDir
    /\ platform = Host("linux", TRUE)
    /\ calls = 0

\* main with --schedule, where the tools of the scheduler work
InstallCommand ==
    /\ calls < MaxPathCalls
    /\ \E a \in PathInstallArgs :
           Ran("install", a, TRUE, main(a, state_dir, registered, platform, clock, TRUE))

NextPaths == InstallCommand

SpecPaths == InitPaths /\ [][NextPaths]_vars

(***************************************************************************)
(* Invocations of the command line on a host with cron: with --schedule,   *)
(* with --schedule-spec and --schedule-state as the installed job has      *)
(* them, with one of them, with none, and with flags given empty.          *)
(***************************************************************************)
MaxInvocations == 2

\* a spec every minute matches, one only the first minute of a year
\* matches, and a text that is no spec
InvokedSpecs ==
    { CronText(<<"*", "*", "*", "*", "*">>), CronText(<<"0", "0", "1", "1", "*">>),
      <<Word("1")>> }

InvokeArgs ==
    [schedule : {None, Some(<< >>), Some(CronText(<<"1", "0", "*", "*", "*">>))},
     schedule_spec : {None, Some(<< >>)} \cup {Some(t) : t \in InvokedSpecs},
     schedule_state : {None, Some("state")},
     schedule_timezone : {None}, local_zone : {0}, schedule_label : {<<"a">>},
     schedule_overwrite : {FALSE}, schedule_backend : {"cron"},
     schedule_remove_all : {FALSE}, command : {MailMerge}]

\* no state file, or one with a next_due before, at or after the clock
InitInvoke ==
    /\ args = NoArgs
    /\ cron_spec = << >>
    /\ clock = 2 * TicksPerMinute
    /\ state_file \in {NoFile} \cup {FileOf("object", JString(isoformat(t)), JNull) :
                                        t \in {0, 2 * TicksPerMinute, MaxClock}}
    /\ returned = NoCall
    /\ probe = NoProbe
    /\ outcome = NoOutcome
    /\ registered = NoRegistration
    /\ state_dir = EmptyDir
    /\ platform = Host("linux", FALSE)
    /\ calls = 0

\* what a run of main that is no removal leaves
Invocation(a, loads, out) ==
    /\ state_file' = out.file
    /\ state_dir' = out.state_dir
    /\ registered' = out.registered
    /\ outcome' = [op |-> "invoke", args |-> a, loads |-> loads, status |-> out.status,
                   sent |-> out.sent, installed |-> out.installed,
                   evaluation |-> out.evaluation, pre_file |-> state_file]
    /\ calls' = calls + 1
    /\ UNCHANGED <<cron_spec, clock, returned, probe, args, platform>>

\* main without --schedule-remove-all
Invoke ==
    /\ calls < MaxInvocations
    /\ \E a \in InvokeArgs, loads \in BOOLEAN :
           Invocation(a, loads,
                      main_invocation(a, state_file, state_dir, registered, platform, clock,
                                      TRUE, loads))

NextInvoke == Invoke

SpecInvoke == InitInvoke /\ [][NextInvoke]_vars

(***************************************************************************)
(* send_messages called once, on a table of up to MaxRows rows, without    *)
(* --limit or with a limit below, within or above the table.               *)
(***************************************************************************)
MaxRows == 3

\* tables of rows with a recipient or with none
Tables == UNION {[1..n -> {"a@x.y", ""}] : n \in 0..MaxRows}

\* --limit, type=int: absent or any integer
Limits == {None} \cup {Some(n) : n \in (0 - MaxRows - 1)..(MaxRows + 1)}

InitSend ==
    /\ args = NoArgs
    /\ cron_spec = << >>
    /\ clock = TicksPerMinute
    /\ state_file = NoFile
    /\ returned = NoCall
    /\ probe = NoProbe
    /\ outcome = NoOutcome
    /\ registered = NoRegistration
    /\ state_dir = EmptyDir
    /\ platform = Host("linux", FALSE)
    /\ calls = 0

SendMessages ==
    /\ outcome = NoOutcome
    /\ \E rows \in Tables, limit \in Limits :
           outcome' = [op |-> "send", rows |-> rows, limit |-> limit,
                       sent |-> send_messages(rows, limit)]
    /\ UNCHANGED <<cron_spec, clock, state_file, returned, probe, args, registered,
                   state_dir, platform, calls>>

NextSend == SendMessages

SpecSend == InitSend /\ [][NextSend]_vars

(***************************************************************************)
(* A job run by the scheduler: the installer creates the state file at     *)
(* minute t0 and the scheduler then runs the tool once in every minute,    *)
(* at some second of that minute.                                          *)
(***************************************************************************)
InitMinutely ==
    /\ cron_spec \in JobSpecs
    /\ clock \in 0..(TicksPerMinute - 1)
    /\ state_file = NoFile
    /\ returned = NoCall
    /\ probe = NoProbe
    /\ args = NoArgs
    /\ outcome = NoOutcome
    /\ registered = NoRegistration
    /\ state_dir = EmptyDir
    /\ platform = Host("linux", TRUE)
    /\ calls = 0

\* the installer's initialize_schedule_state(state_path, cron_spec, overwrite)
InitializeFresh ==
    /\ returned.op = "none"
    /\ \E overwrite \in BOOLEAN :
        LET out == initialize_schedule_state(state_file, cron_spec, overwrite, clock)
        IN /\ state_file' = out.file
           /\ returned' = CallRecord("initialize", overwrite, clock, state_file, out, NoPrior)
    /\ UNCHANGED <<cron_spec, clock, probe, args, outcome, registered,
                   state_dir, platform, calls>>

\* the run of one minute: update_schedule_state at the clock, and the clock
\* then stands at the second of the next minute at which the next run starts
EveryMinute ==
    /\ returned.op # "none"
    /\ state_file.exists
    /\ clock < MaxClock
    /\ LET out == update_schedule_state(cron_spec, state_file, clock)
       IN /\ state_file' = out.file
          /\ returned' = CallRecord("update", FALSE, clock, state_file, out, PriorOf(returned))
    /\ \E second \in 0..(TicksPerMinute - 1) :
           clock' = TruncateToMinute(clock) + TicksPerMinute + second
    /\ UNCHANGED <<cron_spec, probe, args, outcome, registered,
                   state_dir, platform, calls>>

NextMinutely == InitializeFresh \/ EveryMinute

SpecMinutely == InitMinutely /\ [][NextMinutely]_vars

(***************************************************************************)
(* The calendar backends: a cron text is converted, and installed on the   *)
(* default backend of a host that has none of the tool's jobs yet.         *)
(***************************************************************************)
\* the fields of FiveFields and OddFields, every weekday up to one past
\* DaysPerWeek, and values of two digits
CalendarFields ==
    FiveFields \cup OddFields
        \cup { <<"1", "0", "*", "*", ToString(wd)>> : wd \in 0..(DaysPerWeek + 1) }
        \cup { <<"10", "12", "11", "10", "*">>, <<"10", "12", "*", "10", "7">> }

CalendarArgs ==
    [schedule : {CronText(f) : f \in CalendarFields}, schedule_timezone : {None},
     local_zone : {0}]

InitCalendar ==
    /\ args \in CalendarArgs
    /\ cron_spec = << >>
    /\ clock = TicksPerMinute
    /\ state_file = NoFile
    /\ returned = NoCall
    /\ probe = NoProbe
    /\ outcome = NoOutcome
    /\ registered = NoRegistration
    /\ state_dir = EmptyDir
    /\ platform \in {Host("darwin", FALSE), Host("linux", TRUE)}
    /\ calls = 0

\* main with --schedule and no --schedule-backend, once
InstallDefault ==
    /\ calls = 0
    /\ \E overwrite \in BOOLEAN, tool_ok \in BOOLEAN :
           LET a == [schedule |-> args.schedule, schedule_timezone |-> args.schedule_timezone,
                     local_zone |-> args.local_zone, schedule_label |-> <<"a">>,
                     schedule_overwrite |-> overwrite, schedule_backend |-> "",
                     schedule_remove_all |-> FALSE, command |-> MailMerge]
           IN Ran("install", a, tool_ok,
                  main(a, state_dir, registered, platform, clock, tool_ok))

NextCalendar == ConvertLaunchd \/ ConvertSystemd \/ InstallDefault

SpecCalendar == InitCalendar /\ [][NextCalendar]_vars

(***************************************************************************)
(* The consumers of a spec that the normalizer has accepted as a cron      *)
(* text: next_run_time, the due-time state machine, the converters.        *)
(***************************************************************************)
DownstreamArgs ==
    [schedule : {CronText(f) : f \in SixFields}
                    \cup {CronText(SubSeq(f, 1, 5)) : f \in SixFields}
                    \cup {CronText(SubSeq(f, 2, 6)) : f \in SixFields},
     schedule_timezone : {None}, local_zone : {0}]

InitDownstream ==
    /\ args \in DownstreamArgs
    /\ clock = TicksPerMinute
    /\ cron_spec = split(Prepared.value[1])
    /\ state_file \in {NoFile, FileOf("object", JString(isoformat(0)), JNull),
                       FileOf("object", JString(isoformat(MaxClock)), JNull)}
    /\ returned = NoCall
    /\ probe = NoProbe
    /\ outcome = NoOutcome
    /\ registered = NoRegistration
    /\ state_dir = EmptyDir
    /\ platform = Host("linux", TRUE)
    /\ calls = 0

NextDownstream == NextRun \/ Initialize \/ CheckAndAdvance \/ ConvertLaunchd \/ ConvertSystemd

SpecDownstream == InitDownstream /\ [][NextDownstream]_vars

(***************************************************************************)
(* What the claims speak of.                                               *)
(***************************************************************************)
\* the state file holds a next_due that parses as a timestamp
HoldsDue(file) ==
    /\ file.exists /\ file.json = "object"
    /\ file.next_due.kind = "string"
    /\ fromisoformat(file.next_due.str).raised = ""

\* ... as a timestamp without offset, the kind the program writes
HoldsNaiveDue(file) == HoldsDue(file) /\ ~fromisoformat(file.next_due.str).aware

DueOf(file) == fromisoformat(file.next_due.str).value

\* the last step was a call of check_and_advance / of initialize
Updated == returned.op = "update"
Initialized == returned.op = "initialize"

\* the clock minute of a call
MinuteOf(call) == TruncateToMinute(call.at)

\* a call of check_and_advance made in the very minute of the persisted next_due
AtDueMinute(call) ==
    /\ call.op = "update"
    /\ HoldsNaiveDue(call.pre)
    /\ DueOf(call.pre) = MinuteOf(call)

AdvancedFrom(call, file) ==
    LET next_after == next_run_time(cron_spec, DueOf(call.pre))
    IN /\ next_after.raised = ""
       /\ call.next_due = next_after.value
       /\ file.next_due = JString(isoformat(next_after.value))
       /\ file.last_run = JString(isoformat(MinuteOf(call)))

C3_PendingPersists ==
    (Updated /\ returned.raised = "" /\ ~returned.due) =>
        /\ HoldsDue(state_file) /\ DueOf(state_file) = returned.next_due
        /\ state_file.last_run.kind # "missing"
        /\ LoadedData(returned.pre).last_run.kind = "missing" => state_file.last_run = JNull
        /\ LoadedData(returned.pre).last_run.kind # "missing" =>
              state_file.last_run = returned.pre.last_run
        /\ HoldsDue(returned.pre) => state_file.next_due = returned.pre.next_due

(***************************************************************************)
(* C4.  After every call of check_and_advance that returns, due or not,    *)
(* the persisted next_due is strictly later than the clock minute of the   *)
(* call, whatever next_due was persisted before it.                        *)
(***************************************************************************)
C4_DueAfterCall ==
    (Updated /\ returned.raised = "") =>
        /\ HoldsNaiveDue(state_file)
        /\ DueOf(state_file) > MinuteOf(returned)

(***************************************************************************)
(* C5.  In every state a job reaches by initialize and check_and_advance   *)
(* the next_due of its state file is a minute-aligned timestamp that       *)
(* matches the job's cron spec.                                            *)
(***************************************************************************)
\* instant t matches the spec, by the code's matcher
MatchesSpec(t, spec) ==
    LET f == parse_cron_spec(spec).value
    IN cron_matches(t, f[1], f[2], f[3], f[4], f[5])

C5_StoredDueMatches ==
    state_file.exists =>
        /\ HoldsNaiveDue(state_file)
        /\ dt_second(DueOf(state_file)) = 0
        /\ MatchesSpec(DueOf(state_file), cron_spec)

\* C5 witness: a due call has advanced the next_due that initialize stored
C5_Witness ==
    /\ Updated /\ returned.due
    /\ returned.pre.exists
    /\ state_file.exists /\ DueOf(state_file) > DueOf(returned.pre)
    /\ \E i \in 1..5 : cron_spec[i] # "*"

(***************************************************************************)
(* C6.  initialize: when a state file exists, overwrite is false and its   *)
(* next_due parses, that next_due is returned and the file is left as is;  *)
(* in every other case next_due is the earliest matching minute at or      *)
(* after the current minute and the file is rewritten as {next_due,        *)
(* last_run: null}.  A state file with a parseable next_due exists         *)
(* afterwards.                                                             *)
(***************************************************************************)
\* the case in which initialize trusts what is stored
StoredDueStands(call) == call.pre.exists /\ ~call.overwrite /\ HoldsDue(call.pre)

\* v is the earliest minute-aligned instant at or after the minute `from`
\* that matches the spec
EarliestMatchFrom(v, from, spec) ==
    /\ dt_second(v) = 0
    /\ v >= from
    /\ MatchesSpec(v, spec)
    /\ \A k \in 0..((v - from) \div TicksPerMinute - 1) :
           ~MatchesSpec(from + k * TicksPerMinute, spec)

\* no minute of the scan window that opens at the minute `from` matches the spec
NoMatchInWindow(from, spec) ==
    \A k \in ScanSteps : ~MatchesSpec(from + k * TicksPerMinute, spec)

\* C6 as claimed: initialize returns in every case
C6_InitializeAsClaimed ==
    Initialized =>
        /\ StoredDueStands(returned) =>
              /\ returned.raised = ""
              /\ returned.next_due = DueOf(returned.pre)
              /\ state_file = returned.pre
        /\ ~StoredDueStands(returned) =>
              /\ returned.raised = ""
              /\ EarliestMatchFrom(returned.next_due, MinuteOf(returned), cron_spec)
              /\ state_file = FileOf("object", JString(isoformat(returned.next_due)), JNull)
        /\ HoldsDue(state_file)

\* C6, amended: in the other cases so it is when the spec has a match within the
\* scan window; when it has none initialize raises and leaves the file as it was
C6_Initialize ==
    Initialized =>
        /\ StoredDueStands(returned) =>
              /\ returned.raised = ""
              /\ returned.next_due = DueOf(returned.pre)
              /\ state_file = returned.pre
        /\ (~StoredDueStands(returned) /\ ~NoMatchInWindow(MinuteOf(returned), cron_spec)) =>
              /\ returned.raised = ""
              /\ EarliestMatchFrom(returned.next_due, MinuteOf(returned), cron_spec)
              /\ state_file = FileOf("object", JString(isoformat(returned.next_due)), JNull)
        /\ (~StoredDueStands(returned) /\ NoMatchInWindow(MinuteOf(returned), cron_spec)) =>
              /\ returned.raised = "RuntimeError"
              /\ state_file = returned.pre
        /\ returned.raised = "" => HoldsDue(state_file)

\* C6 witness: initialize with overwrite has replaced a next_due that parsed
C6_Witness ==
    /\ Initialized /\ returned.overwrite
    /\ HoldsDue(returned.pre)
    /\ returned.raised = ""
    /\ state_file # returned.pre

(***************************************************************************)
(* C7.  Whatever the state file holds (text that is no JSON, JSON that is  *)
(* no object, a next_due that is missing, of the wrong type or no ISO      *)
(* timestamp), check_and_advance does not fail: it takes next_due to be    *)
(* next_run(spec, now - 1 minute) and returns a (due, next_due) result.    *)
(***************************************************************************)
\* a state file without a next_due that parses
Corrupt(file) == file.exists /\ ~HoldsDue(file)

C7_CorruptionHealed ==
    (Updated /\ Corrupt(returned.pre)) =>
        LET recomputed == next_run_time(cron_spec, MinuteOf(returned) - TicksPerMinute)
            next_after == next_run_time(cron_spec, recomputed.value)
            due == MinuteOf(returned) >= recomputed.value
        IN (recomputed.raised = "" /\ (due => next_after.raised = "")) =>
              /\ returned.raised = ""
              /\ returned.due <=> due
              /\ returned.next_due = IF due THEN next_after.value ELSE recomputed.value

(***************************************************************************)
(* C8.  For every spec of five fields, each a fixed integer or a wildcard, *)
(* and every start time at which next_run returns, the instant returned    *)
(* matches the spec.                                                       *)
(***************************************************************************)
C8_NextRunMatches ==
    probe.called =>
        /\ probe.first.raised = "" => MatchesSpec(probe.first.value, cron_spec)
        /\ probe.second.raised = "" => MatchesSpec(probe.second.value, cron_spec)

\* C8 witness: next_run has returned an instant past its first candidate, for
\* a spec with a fixed field
C8_Witness ==
    /\ probe.called /\ probe.first.raised = ""
    /\ probe.first.value > TruncateToMinute(probe.start + TicksPerMinute)
    /\ \E i \in 1..5 : cron_spec[i] # "*"

(***************************************************************************)
(* C9.  next_run is monotonic in its start time: for one spec and start    *)
(* times t1 <= t2 at which both calls return, next_run(spec, t2) >=        *)
(* next_run(spec, t1).                                                     *)
(***************************************************************************)
C9_NextRunMonotonic ==
    (probe.called /\ probe.first.raised = "" /\ probe.second.raised = "") =>
        probe.second.value >= probe.first.value

\* C9 witness: from a later start next_run has returned a later instant
C9_Witness ==
    /\ probe.called /\ probe.later > probe.start
    /\ probe.first.raised = "" /\ probe.second.raised = ""
    /\ probe.second.value > probe.first.value

(***************************************************************************)
(* C10.  next_run(spec, after) returns the earliest minute-aligned instant *)
(* at or after (after + 1 minute, truncated to the minute) that matches    *)
(* the spec: no matching minute lies between that first candidate and the  *)
(* result, and the result is never at or before `after` truncated to the   *)
(* minute.                                                                 *)
(***************************************************************************)
C10_NextRunEarliest ==
    probe.called =>
        /\ probe.first.raised = "" =>
              /\ EarliestMatchFrom(probe.first.value,
                                   TruncateToMinute(probe.start + TicksPerMinute), cron_spec)
              /\ probe.first.value > TruncateToMinute(probe.start)
        /\ probe.second.raised = "" =>
              /\ EarliestMatchFrom(probe.second.value,
                                   TruncateToMinute(probe.later + TicksPerMinute), cron_spec)
              /\ probe.second.value > TruncateToMinute(probe.later)

\* C10 witness: from a start inside a minute next_run has passed over candidates
\* that do not match
C10_Witness ==
    /\ probe.called /\ dt_second(probe.start) # 0
    /\ probe.first.raised = ""
    /\ probe.first.value > TruncateToMinute(probe.start + TicksPerMinute) + TicksPerMinute

(***************************************************************************)
(* C11.  next_run fails with the unsatisfiable-schedule error exactly when *)
(* no minute within 366 days (here: a year and a day) of its first         *)
(* candidate matches the spec: it fails for a spec that can never occur    *)
(* (the day of month 2 that month 2 does not have), and it returns for     *)
(* every spec with a matching minute inside that window.                   *)
(***************************************************************************)
\* a minute from `from` to a year and a day after it, both included, matches
MatchWithinYearAndDay(from, spec) ==
    LET f == parse_cron_spec(spec).value
    IN \E k \in 0..((DaysPerYear + 1) * HoursPerDay * MinutesPerHour) :
           cron_matches(from + k * TicksPerMinute, f[1], f[2], f[3], f[4], f[5])

\* the spec names a date that no year has
NeverOccurs(spec) == spec[3] = ToString(DaysPerMonth) /\ spec[4] = "2"

\* what C11 says of one call of next_run
FailsExactlyWhenUnsatisfiable(start, result) ==
    LET first_candidate == TruncateToMinute(start + TicksPerMinute)
    IN /\ result.raised \in {"", "RuntimeError"}
       /\ result.raised = "RuntimeError" <=> ~MatchWithinYearAndDay(first_candidate, cron_spec)
       /\ NeverOccurs(cron_spec) => result.raised = "RuntimeError"

C11_NextRunBounded ==
    probe.called =>
        /\ FailsExactlyWhenUnsatisfiable(probe.start, probe.first)
        /\ FailsExactlyWhenUnsatisfiable(probe.later, probe.second)

\* C11 witness: next_run has failed for a spec whose date exists, but not on
\* its weekday within the window
C11_Witness ==
    /\ probe.called /\ probe.first.raised = "RuntimeError"
    /\ ~NeverOccurs(cron_spec)
    /\ cron_spec[5] # "*"

(***************************************************************************)
(* C12.  matches(instant, spec) is true exactly when every fixed field of  *)
(* the spec equals the corresponding unit of the instant, wildcards        *)
(* matching anything, the weekday compared with Sunday as 0, so that spec  *)
(* weekday 7 and spec weekday 0 match the same instants, the Sundays.      *)
(***************************************************************************)
\* the weekday of an instant, and of a spec field, with Sunday as 0
SundayIs0(t) == IF dt_weekday(t) = DaysPerWeek - 1 THEN 0 ELSE dt_weekday(t) + 1
FieldSundayIs0(w) == IF w = DaysPerWeek THEN 0 ELSE w

\* field i of the spec is a wildcard or equals n
FieldAllows(spec, i, n) == spec[i] = "*" \/ spec[i] = ToString(n)

C12_MatchesFixedFields ==
    outcome.op = "matches" =>
        LET t == outcome.dt_value
            f == parse_cron_spec(cron_spec).value
        IN /\ outcome.result <=>
                 /\ FieldAllows(cron_spec, 1, dt_minute(t))
                 /\ FieldAllows(cron_spec, 2, dt_hour(t))
                 /\ FieldAllows(cron_spec, 3, dt_day(t))
                 /\ FieldAllows(cron_spec, 4, dt_month(t))
                 /\ cron_spec[5] = "*" \/ FieldSundayIs0(f[5][1]) = SundayIs0(t)
           /\ cron_spec[5] \in {"0", ToString(DaysPerWeek)} =>
                 /\ outcome.result => dt_weekday(t) = DaysPerWeek - 1
                 /\ cron_matches(t, f[1], f[2], f[3], f[4], Some(0))
                        = cron_matches(t, f[1], f[2], f[3], f[4], Some(DaysPerWeek))

\* C12 witness: a spec with weekday 7 and another fixed field has matched
C12_Witness ==
    /\ outcome.op = "matches" /\ outcome.result
    /\ cron_spec[5] = ToString(DaysPerWeek)
    /\ \E i \in 1..4 : cron_spec[i] # "*"

(***************************************************************************)
(* C13.  Every canonical cron spec that the normalizer returns has each    *)
(* fixed field inside its range: minute 0..59, hour 0..23, day 1..31,      *)
(* month 1..12, weekday 0..7 (here: the ranges of the scaled calendar).    *)
(***************************************************************************)
\* the range of field i
FieldRange(i) ==
    CASE i = 1 -> 0..(MinutesPerHour - 1)
      [] i = 2 -> 0..(HoursPerDay - 1)
      [] i = 3 -> 1..DaysPerMonth
      [] i = 4 -> 1..MonthsPerYear
      [] i = 5 -> 0..DaysPerWeek

\* five fields, each a wildcard or a value of its range
InRange(fields) ==
    /\ Len(fields) = 5
    /\ \A i \in 1..5 : fields[i] = "*" \/ \E n \in FieldRange(i) : fields[i] = ToString(n)

C13_CanonicalInRange ==
    (outcome.op = "prepare" /\ outcome.result.raised = "") =>
        InRange(split(outcome.result.value[1]))

(***************************************************************************)
(* C14.  A schedule expression that is a known macro is expanded to its    *)
(* five-field spec before it drives state and conversion: @yearly to       *)
(* 0 0 1 1 *, @monthly to 0 0 1 * *, @weekly to 0 0 * * 0, @daily and      *)
(* @midnight to 0 0 * * *, @hourly to 0 * * * *; the display string stays  *)
(* the macro text.                                                         *)
(***************************************************************************)
KnownMacros == {"@yearly", "@monthly", "@weekly", "@daily", "@midnight", "@hourly"}

\* the expression is the macro, white space around it aside
IsMacro(text, macro) == strip(text) = <<Word(macro)>>

\* the table of the claim
ExpansionOf(macro) ==
    CASE macro = "@yearly" -> <<"0", "0", "1", "1", "*">>
      [] macro = "@monthly" -> <<"0", "0", "1", "*", "*">>
      [] macro = "@weekly" -> <<"0", "0", "*", "*", "0">>
      [] macro \in {"@daily", "@midnight"} -> <<"0", "0", "*", "*", "*">>
      [] macro = "@hourly" -> <<"0", "*", "*", "*", "*">>

C14_MacrosExpanded ==
    \A macro \in KnownMacros :
        IsMacro(args.schedule, macro) =>
            /\ outcome.op = "prepare" =>
                  /\ outcome.result.raised = ""
                  /\ split(outcome.result.value[1]) = ExpansionOf(macro)
                  /\ outcome.result.value[2] = <<Word(macro)>>
            /\ outcome.op = "launchd" =>
                  outcome.result = cron_to_launchd_interval(CronText(ExpansionOf(macro)))
            /\ outcome.op = "systemd" =>
                  outcome.result = cron_to_systemd_calendar(CronText(ExpansionOf(macro)))

\* C14 witness: @weekly has been converted for launchd
C14_Witness ==
    /\ IsMacro(args.schedule, "@weekly")
    /\ outcome.op = "launchd" /\ outcome.result.raised = ""
    /\ outcome.result.value["Weekday"] = 0

(***************************************************************************)
(* C15.  An expression that begins with @ and is not in the macro table    *)
(* makes normalization and install fail with a schedule syntax error, on   *)
(* every backend and whether or not a state file of the job exists; no     *)
(* state file is written and no registration is changed.                   *)
(***************************************************************************)
UnknownMacro(text) ==
    /\ strip(text) # << >>
    /\ StartsWithAt(strip(text))
    /\ ~(Len(strip(text)) = 1 /\ strip(text)[1].str \in DOMAIN macro_map)

C15_UnknownMacroFails ==
    /\ outcome.op = "prepare" /\ UnknownMacro(args.schedule) =>
          outcome.result.raised = "ValueError"
    /\ outcome.op = "install" /\ outcome.backend.raised = ""
            /\ UnknownMacro(outcome.args.schedule) =>
          /\ outcome.raised = "ValueError"
          /\ state_dir = outcome.pre_state_dir
          /\ registered = outcome.pre_registered

(***************************************************************************)
(* C16.  Normalizing an expression that splits on white space into exactly *)
(* five or six fields returns it as the canonical spec with every field    *)
(* value unchanged, and returns the same text as the display string.       *)
(***************************************************************************)
Normalized == outcome.op = "normalize"

FiveOrSixFields(text) == Len(split(text)) \in {5, 6}

\* a line break stands between two fields of the text
BreaksInside(text) == \E i \in 1..Len(strip(text)) : strip(text)[i].kind = "linebreak"

\* C16 as claimed: of every text of five or six fields
C16_FieldsRoundTripAsClaimed ==
    (Normalized /\ FiveOrSixFields(args.schedule)) =>
        /\ outcome.result.raised = ""
        /\ split(outcome.result.value[1]) = split(args.schedule)
        /\ outcome.result.value[2] = outcome.result.value[1]

\* C16, amended: of every such text that is one line; one with a line break
\* between its fields is refused
C16_FieldsRoundTrip ==
    (Normalized /\ FiveOrSixFields(args.schedule)) =>
        /\ ~BreaksInside(args.schedule) =>
              /\ outcome.result.raised = ""
              /\ split(outcome.result.value[1]) = split(args.schedule)
              /\ outcome.result.value[2] = outcome.result.value[1]
              /\ outcome.result.value[2] = strip(args.schedule)
        /\ BreaksInside(args.schedule) => outcome.result.raised = "ValueError"

\* C16 witness: a text of six fields with white space around it has been
\* normalized
C16_Witness ==
    /\ Normalized /\ outcome.result.raised = ""
    /\ Len(split(args.schedule)) = 6
    /\ outcome.result.value[1] # args.schedule

(***************************************************************************)
(* C17.  A six-field expression accepted by the normalizer is usable by    *)
(* every downstream consumer (next_run, initialize, check_and_advance and  *)
(* the backend converters): each ignores the extra field and succeeds as   *)
(* it would for the corresponding five-field spec.                         *)
(***************************************************************************)
\* the five-field specs that a six-field spec may correspond to: without its
\* first field, or without its last
FiveFieldSpecsOf(fields) == {SubSeq(fields, 1, 5), SubSeq(fields, 2, 6)}

C17_SixFieldsUsable ==
    Len(cron_spec) = 6 =>
        \E five \in FiveFieldSpecsOf(cron_spec) :
            /\ probe.called => probe.first = next_run_time(five, probe.start)
            /\ Initialized =>
                  returned.raised
                      = initialize_schedule_state(returned.pre, five, returned.overwrite,
                                                  returned.at).raised
            /\ Updated =>
                  returned.raised = update_schedule_state(five, returned.pre, returned.at).raised
            /\ outcome.op = "launchd" =>
                  outcome.result = cron_to_launchd_interval(CronText(five))
            /\ outcome.op = "systemd" =>
                  outcome.result = cron_to_systemd_calendar(CronText(five))

(***************************************************************************)
(* C18.  With the local zone UTC and no timezone hint, an ISO value that   *)
(* carries no offset is normalized without any shift of its fields: a time *)
(* of day HH:MM yields 'MM HH * * *' and a date-time yields 'minute hour   *)
(* day month *'.                                                           *)
(***************************************************************************)
\* the expression is one ISO value of the kind, white space around it aside
IsIso(text, kind) == Len(strip(text)) = 1 /\ strip(text)[1].kind = kind
IsoOf(text) == strip(text)[1]

\* the local zone is UTC, there is no hint, the value spells no offset
PlainUtc == args.local_zone = 0 /\ args.schedule_timezone = None /\ IsoOf(args.schedule).offset = None

C18_IsoUnshiftedInUtc ==
    Normalized =>
        /\ (IsIso(args.schedule, "time") /\ PlainUtc) =>
              /\ outcome.result.raised = ""
              /\ split(outcome.result.value[1])
                     = <<ToString(IsoOf(args.schedule).fields[2]),
                         ToString(IsoOf(args.schedule).fields[1]), "*", "*", "*">>
        /\ (IsIso(args.schedule, "datetime") /\ PlainUtc) =>
              /\ outcome.result.raised = ""
              /\ split(outcome.result.value[1])
                     = <<ToString(IsoOf(args.schedule).fields[5]),
                         ToString(IsoOf(args.schedule).fields[4]),
                         ToString(IsoOf(args.schedule).fields[3]),
                         ToString(IsoOf(args.schedule).fields[2]), "*">>

\* C18 witness: a date-time whose hour and minute differ has been normalized
C18_Witness ==
    /\ Normalized /\ IsIso(args.schedule, "datetime") /\ PlainUtc
    /\ outcome.result.raised = ""
    /\ IsoOf(args.schedule).fields[4] # IsoOf(args.schedule).fields[5]

(***************************************************************************)
(* C19.  For an ISO time or date-time the source zone is the value's own   *)
(* offset if it has one, else the timezone hint if given, else the local   *)
(* zone; minute and hour (and day and month, for a date-time) of the       *)
(* canonical spec are those of the instant converted from the source zone  *)
(* to the local zone.  A value with its own offset ignores the hint.       *)
(***************************************************************************)
\* the source zone, as the claim has it
ClaimedSourceZone ==
    IF IsoOf(args.schedule).offset # None THEN IsoOf(args.schedule).offset[1]
    ELSE IF args.schedule_timezone # None THEN args.schedule_timezone[1]
    ELSE args.local_zone

\* minutes that the local wall clock is ahead of the source zone's
AheadOfSource == args.local_zone - ClaimedSourceZone

\* the local minute of the day of a time of day
LocalMinuteOfDay ==
    (IsoOf(args.schedule).fields[1] * MinutesPerHour + IsoOf(args.schedule).fields[2]
        + AheadOfSource) % (HoursPerDay * MinutesPerHour)

\* the local instant of a date-time
LocalInstant == TicksOfFields(IsoOf(args.schedule).fields) + AheadOfSource * TicksPerMinute

C19_IsoInLocalTime ==
    Normalized =>
        /\ IsIso(args.schedule, "time") =>
              /\ outcome.result.raised = ""
              /\ split(outcome.result.value[1])
                     = <<ToString(LocalMinuteOfDay % MinutesPerHour),
                         ToString(LocalMinuteOfDay \div MinutesPerHour), "*", "*", "*">>
        /\ IsIso(args.schedule, "datetime") =>
              /\ outcome.result.raised = ""
              /\ split(outcome.result.value[1])
                     = <<ToString(dt_minute(LocalInstant)), ToString(dt_hour(LocalInstant)),
                         ToString(dt_day(LocalInstant)), ToString(dt_month(LocalInstant)), "*">>

\* C19 witness: a date-time with an offset of its own, a hint that differs from
\* it, and a local day that differs from the day written
C19_Witness ==
    /\ Normalized /\ IsIso(args.schedule, "datetime")
    /\ IsoOf(args.schedule).offset # None /\ args.schedule_timezone # None
    /\ IsoOf(args.schedule).offset # args.schedule_timezone
    /\ args.schedule_timezone[1] # args.local_zone
    /\ dt_day(LocalInstant) # IsoOf(args.schedule).fields[3]

(***************************************************************************)
(* C20.  The launchd converter maps a spec with fixed minute and hour to a *)
(* structure that always has Minute and Hour, and has a Day, Month or      *)
(* Weekday key exactly when the corresponding field is fixed, with the     *)
(* field's value; a spec that fixes minute and hour only yields Minute and *)
(* Hour and no other key.                                                  *)
(***************************************************************************)
LaunchdKeys == <<"Minute", "Hour", "Day", "Month", "Weekday">>

\* the fields of the spec that was converted
ConvertedFields == split(Prepared.value[1])

C20_LaunchdInterval ==
    (outcome.op = "launchd" /\ Len(ConvertedFields) = 5) =>
        /\ outcome.result.raised = "" =>
              /\ {"Minute", "Hour"} \subseteq DOMAIN outcome.result.value
              /\ \A i \in 1..5 :
                    /\ LaunchdKeys[i] \in DOMAIN outcome.result.value <=> ConvertedFields[i] # "*"
                    /\ ConvertedFields[i] # "*" =>
                          ToString(outcome.result.value[LaunchdKeys[i]]) = ConvertedFields[i]
        /\ (/\ \A i \in 1..2 : ConvertedFields[i] \in Literals
            /\ \A i \in 3..5 : ConvertedFields[i] = "*") =>
              /\ outcome.result.raised = ""
              /\ DOMAIN outcome.result.value = {"Minute", "Hour"}

\* C20 witness: a spec that fixes minute, hour, day and month has been converted
C20_Witness ==
    /\ outcome.op = "launchd" /\ outcome.result.raised = ""
    /\ DOMAIN outcome.result.value = {"Minute", "Hour", "Day", "Month"}

(***************************************************************************)
(* C21.  A canonical spec that fixes both the day of the month and the     *)
(* weekday is rejected by the launchd converter and by the systemd         *)
(* converter with a ValueError, and an install of it on either backend     *)
(* fails with that error and leaves the schedulers as they were.           *)
(***************************************************************************)
FieldsOf(text) == split(strip(text))

IsNumberOrStar(field) == field = "*" \/ field \in {ToString(n) : n \in FieldValues}

IsCanonical(text) ==
    /\ Len(FieldsOf(text)) = 5
    /\ \A i \in 1..5 : IsNumberOrStar(FieldsOf(text)[i])

FixesDayAndWeekday(text) ==
    /\ IsCanonical(text)
    /\ FieldsOf(text)[3] # "*"
    /\ FieldsOf(text)[5] # "*"

C21_DayAndWeekdayRejected ==
    FixesDayAndWeekday(args.schedule) =>
        /\ outcome.op \in {"launchd", "systemd"} => outcome.result.raised = "ValueError"
        /\ outcome.op = "install" =>
              /\ outcome.backend.value \in {"launchd", "systemd"}
              /\ outcome.raised = "ValueError"
              /\ registered = outcome.pre_registered
              /\ registered = NoRegistration

\* both converters and an install have met a spec whose minute and hour are
\* fixed, and whose day and weekday are fixed
C21_Witness ==
    /\ FixesDayAndWeekday(args.schedule)
    /\ FieldsOf(args.schedule)[1] # "*" /\ FieldsOf(args.schedule)[2] # "*"
    /\ calls = 1
    /\ outcome.op = "launchd"
    /\ outcome.result.raised = "ValueError"

(***************************************************************************)
(* C22.  Both calendar converters reject, with a ValueError, a spec whose  *)
(* minute or hour is a wildcard and a spec with a field that is neither a  *)
(* non-negative integer nor "*"; an install of such a spec on launchd or   *)
(* systemd fails with that error, and no state file and no artifact is     *)
(* written.                                                                *)
(***************************************************************************)
NotOfTheCalendar(text) ==
    /\ Len(FieldsOf(text)) = 5
    /\ \/ FieldsOf(text)[1] = "*"
       \/ FieldsOf(text)[2] = "*"
       \/ \E i \in 1..5 : ~IsNumberOrStar(FieldsOf(text)[i])

C22_WildcardAndNonNumericRejected ==
    NotOfTheCalendar(args.schedule) =>
        /\ outcome.op \in {"launchd", "systemd"} => outcome.result.raised = "ValueError"
        /\ outcome.op = "install" =>
              /\ outcome.backend.value \in {"launchd", "systemd"}
              /\ outcome.raised = "ValueError"
              /\ state_dir = outcome.pre_state_dir
              /\ registered = outcome.pre_registered
              /\ state_dir = EmptyDir
              /\ registered = NoRegistration

\* an install of a spec with a field that is no number has failed
C22_Witness ==
    /\ \E i \in 1..5 : ~IsNumberOrStar(FieldsOf(args.schedule)[i])
    /\ NotOfTheCalendar(args.schedule)
    /\ outcome.op = "install"
    /\ outcome.raised = "ValueError"

(***************************************************************************)
(* C23.  Of a canonical spec with fixed minute and hour that does not fix  *)
(* both day and weekday, the systemd converter renders "*-MM-DD HH:MM:00"  *)
(* when the weekday is a wildcard (a wildcard month or day as "*", a       *)
(* number padded to two digits), and "<Day> *-MM-* HH:MM:00" when the      *)
(* weekday is fixed: Sun for 0 and for 7, Mon to Sat for 1 to 6; a weekday *)
(* outside 0..7 is rejected.                                               *)
(***************************************************************************)
NumberOf(field) == CHOOSE n \in FieldValues : ToString(n) = field

TwoDigits(field) ==
    IF field = "*" THEN "*"
    ELSE IF NumberOf(field) < 10 THEN "0" \o field
    ELSE field

DayName(n) ==
    CASE n \in {0, 7} -> "Sun"
      [] n = 1 -> "Mon"
      [] n = 2 -> "Tue"
      [] n = 3 -> "Wed"
      [] n = 4 -> "Thu"
      [] n = 5 -> "Fri"
      [] n = 6 -> "Sat"

TimeOf(f) == TwoDigits(f[2]) \o ":" \o TwoDigits(f[1]) \o ":00"

CalendarExpression(f) ==
    IF f[5] = "*"
    THEN "*-" \o TwoDigits(f[4]) \o "-" \o TwoDigits(f[3]) \o " " \o TimeOf(f)
    ELSE DayName(NumberOf(f[5])) \o " *-" \o TwoDigits(f[4]) \o "-* " \o TimeOf(f)

OfTheCalendar(text) ==
    /\ IsCanonical(text)
    /\ FieldsOf(text)[1] # "*" /\ FieldsOf(text)[2] # "*"
    /\ ~FixesDayAndWeekday(text)

C23_CalendarExpression ==
    outcome.op = "systemd" /\ OfTheCalendar(args.schedule) =>
        IF FieldsOf(args.schedule)[5] # "*" /\ NumberOf(FieldsOf(args.schedule)[5]) \notin 0..7
        THEN outcome.result.raised = "ValueError"
        ELSE /\ outcome.result.raised = ""
             /\ outcome.result.value = CalendarExpression(FieldsOf(args.schedule))

\* a fixed weekday with a fixed month has been rendered
C23_Witness ==
    /\ outcome.op = "systemd"
    /\ OfTheCalendar(args.schedule)
    /\ FieldsOf(args.schedule)[5] = "7"
    /\ FieldsOf(args.schedule)[4] = "10"
    /\ outcome.result.value = "Sun *-10-* 12:10:00"


(***************************************************************************)
(* Claims about the jobs of a host.                                        *)
(***************************************************************************)
\* the last run of main was an install on a backend the host supports
InstallRan == outcome.op = "install" /\ outcome.backend.raised = ""

\* the last run of main was a removal on a backend the host supports
RemoveRan == outcome.op = "remove" /\ outcome.backend.raised = ""

\* an artifact of the label is registered on the backend: a crontab entry, a
\* plist file, a service or timer unit file
ArtifactOf(registration, backend, label_seed) ==
    CASE backend = "cron" ->
             \E i \in 1..Len(registration.crontab) :
                 /\ registration.crontab[i].kind = "comment"
                 /\ registration.crontab[i].label = label_seed
      [] backend = "launchd" -> label_seed \in DOMAIN registration.plists
      [] backend = "systemd" ->
             label_seed \in DOMAIN registration.services
                 \/ label_seed \in DOMAIN registration.timers

\* the schedule is one the backend takes: it is prepared and converted
TakenBy(backend, a, wall) ==
    LET prepared == prepare_schedule(a.schedule, a.schedule_timezone, a.local_zone, wall)
    IN /\ prepared.raised = ""
       /\ backend = "launchd" => cron_to_launchd_interval(prepared.value[1]).raised = ""
       /\ backend = "systemd" => cron_to_systemd_calendar(prepared.value[1]).raised = ""

\* the last run was an install without overwrite of a label that had an
\* artifact on the backend
InstalledOverExisting(overwrite) ==
    /\ InstallRan
    /\ outcome.args.schedule_overwrite = overwrite
    /\ ArtifactOf(outcome.pre_registered, outcome.backend.value, outcome.args.schedule_label)

Entries(registration, label_seed) ==
    {i \in 1..Len(registration.crontab) :
        /\ registration.crontab[i].kind = "comment"
        /\ registration.crontab[i].label = label_seed}

\* the argument vector an install writes into its artifact
ArgumentsOf(a, wall) ==
    LET spec == prepare_schedule(a.schedule, a.schedule_timezone, a.local_zone, wall).value[1]
    IN build_program_arguments(a, spec,
                               build_state_path(a.schedule_label, Fingerprint(a.command, spec)))

\* the label has one artifact on the backend, live, with the spec and the
\* command of the install
OneArtifact(registration, backend, a, wall) ==
    LET label_seed == a.schedule_label
        spec == prepare_schedule(a.schedule, a.schedule_timezone, a.local_zone, wall).value[1]
    IN CASE backend = "cron" ->
                /\ Cardinality(Entries(registration, label_seed)) = 1
                /\ \A i \in Entries(registration, label_seed) :
                       /\ i < Len(registration.crontab)
                       /\ registration.crontab[i + 1] = CommandLine(spec, ArgumentsOf(a, wall))
         [] backend = "launchd" ->
                /\ label_seed \in DOMAIN registration.plists
                /\ registration.plists[label_seed] =
                       Plist(label_seed, ArgumentsOf(a, wall),
                             cron_to_launchd_interval(spec).value)
                /\ label_seed \in registration.loaded
         [] backend = "systemd" ->
                /\ label_seed \in DOMAIN registration.services
                /\ label_seed \in DOMAIN registration.timers
                /\ registration.services[label_seed] = ServiceUnit(ArgumentsOf(a, wall))
                /\ registration.timers[label_seed] =
                       TimerUnit(cron_to_systemd_calendar(spec).value)
                /\ label_seed \in registration.enabled

\* the teardown of the prior artifact comes before the write of the new one
TornDownFirst(backend, events) ==
    CASE backend = "cron" -> events = <<"state", "crontab">>
      [] backend = "launchd" -> events = <<"state", "bootout", "plist", "bootstrap">>
      [] backend = "systemd" -> events \in {<<"state", "disable", "units", "enable">>,
                                            <<"state", "units", "enable">>}

\* an install with overwrite over an artifact of the label, of a schedule the
\* backend takes and with the tools of the scheduler working, on one of the
\* backends: it succeeds and leaves one artifact of the label, the new one
OverwriteReplaces(backends) ==
    /\ InstalledOverExisting(TRUE)
    /\ outcome.backend.value \in backends
    /\ TakenBy(outcome.backend.value, outcome.args, clock)
    /\ outcome.tool_ok
    => /\ outcome.raised = ""
       /\ TornDownFirst(outcome.backend.value, outcome.events)
       /\ OneArtifact(registered, outcome.backend.value, outcome.args, clock)

\* C25: an install with overwrite over an existing artifact of the same
\* label succeeds, tears the prior artifact down before the new one is
\* written, and leaves exactly one artifact of the label, with the new spec
\* and command.
C25_OverwriteReplaces == OverwriteReplaces(Backends)


\* the state paths the artifacts of the schedulers name in their commands
StatePathsNamed(registration) ==
    {registration.crontab[i].arguments[1].state_path[1] :
        i \in {j \in 1..Len(registration.crontab) : registration.crontab[j].kind = "command"}}
    \cup {registration.plists[l].ProgramArguments.state_path[1] : l \in DOMAIN registration.plists}
    \cup {registration.services[l].ExecStart.state_path[1] : l \in DOMAIN registration.services}

\* the state file is there and its next_due parses
HasNextDue(dir, state_path) == TrustsStored(StateAt(dir, state_path), FALSE)

\* C26: an install persists the state before it registers the artifact, so
\* whenever an artifact is registered, on any backend, the state file its
\* command names exists with a next_due that parses.
C26_StateOfEveryArtifact ==
    /\ InstallRan /\ outcome.events # << >> => outcome.events[1] = "state"
    /\ \A state_path \in StatePathsNamed(registered) : HasNextDue(state_dir, state_path)



\* the labels that have an artifact on the backend, and for cron the entries
\* of the crontab, which are counted one by one
ArtifactsOn(registration, backend) ==
    CASE backend = "cron" ->
             {i \in 1..Len(registration.crontab) :
                 registration.crontab[i].kind \in {"comment", "command"}}
      [] backend = "launchd" -> DOMAIN registration.plists \cup registration.loaded
      [] backend = "systemd" ->
             DOMAIN registration.services \cup DOMAIN registration.timers
                 \cup registration.enabled

JobsOn(registration, backend) ==
    CASE backend = "cron" ->
             {i \in 1..Len(registration.crontab) : registration.crontab[i].kind = "comment"}
      [] backend = "launchd" -> DOMAIN registration.plists
      [] backend = "systemd" -> DOMAIN registration.services \cup DOMAIN registration.timers

\* C27: when the removal of every job of a backend returns, no artifact of
\* the tool is registered on that backend any more, and the count returned is
\* the number of the jobs that were registered on it before.
C27_AllRemovedAndCounted ==
    RemoveRan /\ outcome.raised = "" =>
        /\ ArtifactsOn(registered, outcome.backend.value) = {}
        /\ outcome.removed = Cardinality(JobsOn(outcome.pre_registered, outcome.backend.value))

C27_Witness ==
    /\ RemoveRan /\ outcome.raised = ""
    /\ outcome.backend.value = "cron"
    /\ outcome.removed = 2
    /\ Cardinality(JobsOn(outcome.pre_registered, "cron")) = 2
    /\ ArtifactsOn(registered, "cron") = {}



\* the labels of the jobs of a backend
LabelsOn(registration, backend) ==
    IF backend = "cron"
    THEN {registration.crontab[i].label : i \in JobsOn(registration, "cron")}
    ELSE JobsOn(registration, backend)

\* C28: after installs, overwrites among them, and the removal of every job
\* of the backend, no state file of a removed label is left on disk.
C28_NoStateFileLeft ==
    RemoveRan /\ outcome.raised = "" =>
        \A name \in DOMAIN state_dir :
            name[1] \notin LabelsOn(outcome.pre_registered, outcome.backend.value)

\* C29: the removal of every job of a backend that has none returns 0 and
\* changes nothing: no crontab write, no artifact and no state file created,
\* modified or deleted.
C29_NothingToRemove ==
    RemoveRan /\ JobsOn(outcome.pre_registered, outcome.backend.value) = {} =>
        /\ outcome.raised = ""
        /\ outcome.removed = 0
        /\ outcome.events = << >>
        /\ registered = outcome.pre_registered
        /\ state_dir = outcome.pre_state_dir

\* a removal on a backend without jobs, on a host with a job and its state
\* file on another backend
C29_Witness ==
    /\ RemoveRan
    /\ JobsOn(outcome.pre_registered, outcome.backend.value) = {}
    /\ outcome.pre_registered # NoRegistration
    /\ outcome.pre_state_dir # EmptyDir
    /\ outcome.removed = 0
    /\ registered = outcome.pre_registered
    /\ state_dir = outcome.pre_state_dir

\* the backend named is one the platform does not have
Unsupported(choice, host) ==
    \/ choice = "launchd" /\ host.sys_platform # "darwin"
    \/ choice = "systemd" /\ host.sys_platform # "linux"

\* C30: a backend named explicitly that the platform does not support fails
\* when the backend is determined, before an install or a removal touches a
\* state file, an artifact or a registration; "auto" is launchd on macOS,
\* systemd on Linux with systemctl, cron otherwise, and is supported.
C30_BackendChoice ==
    outcome.op \in {"install", "remove"} =>
        /\ Unsupported(outcome.args.schedule_backend, platform) =>
               /\ outcome.backend.raised = "RuntimeError"
               /\ outcome.raised = "RuntimeError"
               /\ outcome.events = << >>
               /\ registered = outcome.pre_registered
               /\ state_dir = outcome.pre_state_dir
        /\ outcome.args.schedule_backend = "auto" =>
               /\ outcome.backend.raised = ""
               /\ ~Unsupported(outcome.backend.value, platform)
               /\ outcome.backend.value =
                      IF platform.sys_platform = "darwin" THEN "launchd"
                      ELSE IF platform.sys_platform = "linux" /\ platform.systemctl
                           THEN "systemd"
                      ELSE "cron"

\* an unsupported choice on a host that has a job, and "auto" on a Linux
\* without systemctl
C30_Witness ==
    /\ outcome.op = "install"
    /\ Unsupported(outcome.args.schedule_backend, platform)
    /\ outcome.raised = "RuntimeError"
    /\ outcome.pre_registered # NoRegistration
    /\ registered = outcome.pre_registered
    /\ state_dir = outcome.pre_state_dir

C30_WitnessAuto ==
    /\ outcome.op = "remove"
    /\ outcome.args.schedule_backend = "auto"
    /\ platform = Host("linux", FALSE)
    /\ outcome.backend.value = "cron"
    /\ outcome.removed = 1



\* C31: an install that fails, with whatever fatal error, leaves the state
\* files with their contents and the registered artifacts as they were
\* before the call.
C31_FailedInstallChangesNothing ==
    outcome.op = "install" /\ outcome.raised # "" =>
        /\ state_dir = outcome.pre_state_dir
        /\ registered = outcome.pre_registered



\* the jobs the schedulers hold: of each its label, and the command, the
\* spec and the state path its artifact carries
JobOf(label_seed, arguments) ==
    [label |-> label_seed, command |-> arguments.command, spec |-> arguments.schedule_spec,
     state_path |-> arguments.state_path[1]]

JobsRegistered(registration) ==
    {JobOf(registration.crontab[i].label, registration.crontab[i + 1].arguments[1]) :
        i \in {j \in 1..(Len(registration.crontab) - 1) :
                  /\ registration.crontab[j].kind = "comment"
                  /\ registration.crontab[j + 1].kind = "command"}}
    \cup {JobOf(l, registration.plists[l].ProgramArguments) : l \in DOMAIN registration.plists}
    \cup {JobOf(l, registration.services[l].ExecStart) : l \in DOMAIN registration.services}

\* two jobs of one label use the same state file exactly when they have the
\* same command and the same spec
SameFileIffSameJob(jobs) ==
    \A x \in jobs, y \in jobs :
        x.label = y.label =>
            (x.state_path = y.state_path <=> x.command = y.command /\ x.spec = y.spec)

\* C32: the state file of a job is a function of its label, its rendered
\* command arguments and its canonical spec only: under one label, another
\* command or another spec gives another state file, the same command and
\* spec the same state file.
C32_StatePathOfJob == SameFileIffSameJob(JobsRegistered(registered))



\* the invocation of an installed job: --schedule-spec and --schedule-state,
\* no --schedule
ScheduledInvocation(a) ==
    a.schedule = None /\ a.schedule_spec # None /\ a.schedule_state # None

\* C33: an invocation with both --schedule-spec and --schedule-state enters
\* the send path only if update_schedule_state reported due; when it reports
\* not due the program exits with status 0 and sends nothing; and an
\* invocation with --schedule installs and never sends.
C33_SendsOnlyWhenDue ==
    outcome.op = "invoke" =>
        /\ ScheduledInvocation(outcome.args) =>
               /\ outcome.evaluation # ""
               /\ outcome.sent => outcome.evaluation = "due"
               /\ outcome.evaluation = "not due" => outcome.status = 0 /\ ~outcome.sent
        /\ outcome.args.schedule # None => outcome.installed /\ ~outcome.sent



\* C34: with --limit N, for every integer N, at most max(N, 0) messages are
\* sent and none to a row whose position is greater than N.
C34_LimitBoundsSending ==
    outcome.op = "send" /\ outcome.limit # None =>
        /\ Cardinality(outcome.sent) <= (IF outcome.limit[1] > 0 THEN outcome.limit[1] ELSE 0)
        /\ \A index \in outcome.sent : index <= outcome.limit[1]



\* C35: on cron, after any installs, of equal labels, of distinct labels and
\* of labels where one is a prefix of the other, the crontab holds at most
\* one entry per label, and an install of a label neither removes the entry
\* of another label nor is refused because of it.
C35_OneEntryPerLabel ==
    /\ \A label_seed \in Labels : Cardinality(Entries(registered, label_seed)) <= 1
    /\ InstallRan /\ outcome.backend.value = "cron" =>
           /\ \A other \in Labels \ {outcome.args.schedule_label} :
                  ArtifactOf(outcome.pre_registered, "cron", other)
                      => ArtifactOf(registered, "cron", other)
           /\ ~ArtifactOf(outcome.pre_registered, "cron", outcome.args.schedule_label)
                  => outcome.message # "already exists"



\* the lines of somebody else, in their order
ForeignLines(lines) == SelectSeq(lines, LAMBDA line : line.kind = "other")

\* the last run rewrote the crontab: a removal, or an install with overwrite
Rewrote ==
    /\ outcome.op \in {"install", "remove"}
    /\ outcome.backend.raised = "" /\ outcome.backend.value = "cron"
    /\ outcome.raised = ""
    /\ outcome.op = "install" => outcome.args.schedule_overwrite

\* C36: a removal and an install with overwrite on cron leave the crontab
\* lines that belong to no entry of the tool present and in their order,
\* also when the line after a comment line of the tool is no command of the
\* tool or the comment is the last line: every line of somebody else stays.
C36_ForeignLinesKept ==
    Rewrote => ForeignLines(registered.crontab) = ForeignLines(outcome.pre_registered.crontab)



\* the next_due a state file holds, when it holds one that parses
HoldsNextDue(file) == TrustsStored(file, FALSE)

NextDueIn(file) == fromisoformat(file.next_due.str).value

\* the last_run a state file holds, none when the file or the key is missing
LastRunIn(file) == IF LoadedData(file).last_run.kind = "missing" THEN JNull
                   ELSE LoadedData(file).last_run

\* the last call was update_schedule_state and reported due
ReportedDue == returned.op = "update" /\ returned.raised = "" /\ returned.due

\* C37: over the calls of update_schedule_state on one state file, with a
\* clock that does not go back, the persisted next_due never decreases and
\* strictly increases on every call that reports due, and the persisted
\* last_run changes only on a call that reports due, where it becomes the
\* minute of the clock of that call.
C37_NextDueMonotonic ==
    returned.op = "update" =>
        /\ HoldsNextDue(returned.pre) =>
               /\ HoldsNextDue(state_file)
               /\ NextDueIn(state_file) >= NextDueIn(returned.pre)
               /\ ReportedDue => NextDueIn(state_file) > NextDueIn(returned.pre)
        /\ ReportedDue =>
               /\ HoldsNextDue(state_file)
               /\ state_file.last_run = JString(isoformat(TruncateToMinute(returned.at)))
        /\ ~ReportedDue => LastRunIn(state_file) = LastRunIn(returned.pre)

\* a due call on a stored next_due and last_run, after the clock has moved
C37_Witness ==
    /\ ReportedDue
    /\ returned.at > TicksPerMinute
    /\ HoldsNextDue(returned.pre)
    /\ returned.pre.last_run.kind = "string"
    /\ NextDueIn(state_file) > NextDueIn(returned.pre)
    /\ state_file.last_run # returned.pre.last_run

\* C38: from a state file freshly created by initialize_schedule_state at
\* minute t0, with update_schedule_state called exactly once in every minute
\* from t0 on, the call of a minute reports due if and only if that minute
\* matches the spec.
C38_DueIffMinuteMatches ==
    returned.op = "update" =>
        (ReportedDue <=> MatchesSpec(TruncateToMinute(returned.at), cron_spec))


====
